---- MODULE Spec2Model ----
(***************************************************************************)
(* Verification model of the course notebooks under src/code:              *)
(*   part1_using_a_different_solver.ipynb   (Douglas-Rachford denoising)   *)
(*   "TV reconstruction sparse angle.ipynb" (sparse-angle reconstruction,  *)
(*                                  followed by the PDHG denoising cells)  *)
(*   part2_classification_pytorch.ipynb     (datasets, training cells,     *)
(*                                  IterativeNet, show_image_matrix)       *)
(* Numbers: step sizes and operator norms are exact rationals <<n, d>>     *)
(* (the notebooks use floats); image samples are integers in grid units.   *)
(* The bodies of the ODL solvers are library code: a solver run is the     *)
(* loop "niter times, update x in place" that the call sites ask for.      *)
(***************************************************************************)
EXTENDS Integers, Sequences, FiniteSets, TLC

\* ------------------------------------------------------------------ bounds
\* number of samples of an image in the solver runs
Npix == 1
\* samples of an image lie in -MaxPix .. MaxPix
MaxPix == 1
\* length of the arrays handed to the pointwise functions
Dim == 2
\* entries of those arrays lie in -MaxVal .. MaxVal
MaxVal == 2
\* iterations of the power method that are followed (the notebooks ask for
\* maxiter = 20; exact integer arithmetic is kept in range)
PmIter == 6
\* IterativeNet is built with niter in 0 .. MaxNiter (the notebook: niter=2)
MaxNiter == 2
\* show_image_matrix gets up to MaxGrid batches of up to MaxGrid images
MaxGrid == 2

\* --------------------------------------------------------------- rationals
Abs(n) == IF n < 0 THEN -n ELSE n

RECURSIVE Gcd(_, _)
Gcd(a, b) == IF b = 0 THEN a ELSE Gcd(b, a % b)

\* the rational n/d (d > 0) in lowest terms
Rat(n, d) ==
    LET k == Gcd(Abs(n), d)
    IN  <<n \div k, d \div k>>

RMul(a, b) == Rat(a[1] * b[1], a[2] * b[2])
RAdd(a, b) == Rat(a[1] * b[2] + b[1] * a[2], a[2] * b[2])
\* a / b for b > 0
RDiv(a, b) == Rat(a[1] * b[2], a[2] * b[1])
RLt(a, b) == a[1] * b[2] < b[1] * a[2]
RInt(n) == <<n, 1>>

\* ------------------------------------------------------------------ vectors
Vectors(n, m) == [1..n -> (-m)..m]
Zero(n) == [i \in 1..n |-> 0]
vec_add(u, v) == [i \in 1..Len(u) |-> u[i] + v[i]]
\* a vector all of whose samples are c
IsConstant(v, c) == \A i \in 1..Len(v) : v[i] = c

\* ------------------------------------------------------------------- spaces
\* a space is [tag, name, parts]: a discretised function space, or the
\* product of the spaces in parts
Discr(name) == [tag |-> "discr", name |-> name, parts |-> <<>>]
ProductSpace(parts) == [tag |-> "prod", name |-> "", parts |-> parts]
NoSpace == [tag |-> "none", name |-> "", parts |-> <<>>]

\* X = odl.uniform_discr(...) of the two denoising notebooks
X == Discr("X")
\* space = odl.uniform_discr(...) of the sparse-angle notebook
space == Discr("space")

\* ---------------------------------------------------------------- operators
\* an operator is [kind, domain, range]
NoOperator == [kind |-> "None", domain |-> NoSpace, range |-> NoSpace]

IdentityOperator(dom) ==
    [kind |-> "IdentityOperator", domain |-> dom, range |-> dom]

\* the range of the gradient on a 2-D image space is the power space dom^2
GradientRange(dom) == ProductSpace(<<dom, dom>>)

Gradient(dom) ==
    [kind |-> "Gradient", domain |-> dom, range |-> GradientRange(dom)]

\* ray_trafo = odl.tomo.RayTransform(space, geometry): images to sinograms
RayTransform(dom) ==
    [kind |-> "RayTransform", domain |-> dom, range |-> Discr("sinogram")]

BroadcastOperator(op1, op2) ==
    [kind |-> "BroadcastOperator", domain |-> op1.domain,
     range |-> ProductSpace(<<op1.range, op2.range>>)]

\* -------------------------------------------------------------- functionals
\* a functional is [kind, domain, shift, shift_div, weight, arg_scale, parts]:
\* it is translated by shift / shift_div (shift is <<>> when there is none),
\* weight is the factor on its value, arg_scale the factor on its argument,
\* parts are the summands of a separable sum
Functional(kind, dom) ==
    [kind |-> kind, domain |-> dom, shift |-> <<>>, shift_div |-> 1,
     weight |-> RInt(1), arg_scale |-> RInt(1), parts |-> <<>>]
NoFunctional == Functional("None", NoSpace)

IndicatorNonnegativity(dom) == Functional("IndicatorNonnegativity", dom)
IndicatorBox(dom) == Functional("IndicatorBox", dom)
IndicatorZero(dom) == Functional("IndicatorZero", dom)
IndicatorLpUnitBall(dom) == Functional("IndicatorLpUnitBall", dom)
L2NormSquared(dom) == Functional("L2NormSquared", dom)
L1Norm(dom) == Functional("L1Norm", dom)
GroupL1Norm(dom) == Functional("GroupL1Norm", dom)

\* func.translated(v): same domain, shifted by v
translated(func, v) == [func EXCEPT !.shift = v]
\* scalar * func and func * scalar: same domain
scaled(func, a) == [func EXCEPT !.weight = RMul(func.weight, a)]

SeparableSum(func1, func2) ==
    [kind |-> "SeparableSum",
     domain |-> ProductSpace(<<func1.domain, func2.domain>>),
     shift |-> <<>>, shift_div |-> 1, weight |-> RInt(1),
     arg_scale |-> RInt(1), parts |-> <<func1, func2>>]

\* ------------------------------------------------ step sizes and their checks
\* the safety factor 1.1 the notebooks put on the power-method estimate
safety == Rat(11, 10)

\* sum(sigma * opnorm ** 2 for sigma, opnorm in zip(sigmas, opnorms)):
\* zip stops at the shorter of the two lists
RECURSIVE zip_sum(_, _, _)
zip_sum(sigs, norms, k) ==
    IF k = 0 THEN RInt(0)
    ELSE RAdd(zip_sum(sigs, norms, k - 1),
              RMul(sigs[k], RMul(norms[k], norms[k])))

zip_len(sigs, norms) ==
    IF Len(sigs) < Len(norms) THEN Len(sigs) ELSE Len(norms)

sum_part(sigs, norms) == zip_sum(sigs, norms, zip_len(sigs, norms))

check_value(t, sigs, norms) == RMul(t, sum_part(sigs, norms))

\* assert check_value < 4
assert_ok_le(v) == ~RLt(RInt(4), v)
assert_ok(v) == RLt(v, RInt(4))

\* what check_params prints before the assertion
printed_sum(t, sigs, norms) ==
    [text |-> "Sum evaluates to",
     args |-> <<[name |-> "sum_part", val |-> sum_part(sigs, norms)]>>]

\* the message of the AssertionError: 'value must be < 4, got {}'
assert_message(t, sigs, norms) ==
    [text |-> "value must be < 4, got {}",
     args |-> <<[name |-> "check_value", val |-> check_value(t, sigs, norms)]>>]

\* what check_params prints after a passed assertion
printed_ok(t, sigs, norms) ==
    [text |-> "Values ok, check evaluates to {}, must be < 4",
     args |-> <<[name |-> "check_value", val |-> check_value(t, sigs, norms)]>>]

NoMessage == [text |-> "", args |-> <<>>]

\* sigma_i = c / opnorm_i ** 2
balanced_sigmas(cc, norms) ==
    [i \in 1..Len(norms) |-> RDiv(cc, RMul(norms[i], norms[i]))]

\* c = 3.0 / (len(opnorms) * tau)
rule_c_no_len(t, norms) == RDiv(RInt(3), t)
rule_c(t, norms) == RDiv(RInt(3), RMul(RInt(Len(norms)), t))

\* the criterion ||L||^2 tau sigma < 1 of the PDHG notebook
pdhg_criterion_le(norm, t, sig) ==
    ~RLt(RInt(1), RMul(RMul(norm, norm), RMul(t, sig)))
pdhg_criterion(norm, t, sig) ==
    RLt(RMul(RMul(norm, norm), RMul(t, sig)), RInt(1))

\* tau = 1.0 / L_norm, sigma = 1.0 / L_norm
pdhg_step(norm) == RDiv(RInt(1), norm)

\* tau = 1.5; c = 3.0 / (len(opnorms) * tau); sigmas = [c / opnorm ** 2 ...];
\* check_params(tau, sigmas): c, the sigmas, the value checked and whether
\* the assertion passes
rule_of_thumb(t, norms) ==
    LET cc == rule_c(t, norms)
        sigs == balanced_sigmas(cc, norms)
        v == check_value(t, sigs, norms)
    IN  [c |-> cc, sigmas |-> sigs, value |-> v, ok |-> assert_ok(v)]

\* ------------------------------------------- pointwise functions and proximals
\* soft_shrink(x, sigma): res = zeros_like(x); res[x < -sigma] = x + sigma;
\* res[x > sigma] = x - sigma, the second assignment after the first
soft_shrink_sign(xv, s) ==
    [i \in 1..Len(xv) |->
        LET r1 == IF xv[i] < -s THEN xv[i] - s ELSE 0
        IN  IF xv[i] > s THEN xv[i] - s ELSE r1]
soft_shrink(xv, s) ==
    [i \in 1..Len(xv) |->
        LET r1 == IF xv[i] < -s THEN xv[i] + s ELSE 0
        IN  IF xv[i] > s THEN xv[i] - s ELSE r1]

\* values in [0, +infinity]
Fin(v) == [inf |-> FALSE, val |-> v]
Infinity == [inf |-> TRUE, val |-> 0]
ExtAdd(a, b) == IF a.inf \/ b.inf THEN Infinity ELSE Fin(a.val + b.val)
\* k * a for k > 0
ExtScale(k, a) == IF a.inf THEN Infinity ELSE Fin(k * a.val)
ExtLeq(a, b) == b.inf \/ (~a.inf /\ a.val <= b.val)
ExtMin(S) == CHOOSE m \in S : \A v \in S : ExtLeq(m, v)

RECURSIVE ExtSum(_, _)
ExtSum(v, k) == IF k = 0 THEN Fin(0) ELSE ExtAdd(ExtSum(v, k - 1), v[k])

\* the indicator iota_0 at one sample: 0 if x(t) >= 0, infinity if x(t) < 0
iota_0_at_positive(t) == IF t > 0 THEN Fin(0) ELSE Infinity
iota_0_at(t) == IF t >= 0 THEN Fin(0) ELSE Infinity
\* the nonnegativity indicator of a vector
iota_0(xv) == ExtSum([i \in 1..Len(xv) |-> iota_0_at(xv[i])], Len(xv))

RECURSIVE dist2(_, _, _)
\* ||u - v||^2 over the first k entries
dist2(u, v, k) ==
    IF k = 0 THEN 0
    ELSE dist2(u, v, k - 1) + (u[k] - v[k]) * (u[k] - v[k])

RECURSIVE norm1(_, _)
\* ||u||_1 over the first k entries
norm1(u, k) == IF k = 0 THEN 0 ELSE norm1(u, k - 1) + Abs(u[k])

\* prox_{s F}(xv) = argmin_y [ s F(y) + 1/2 ||xv - y||^2 ] over the points of
\* Grid = DOMAIN F: the set of minimisers. F is the functional tabulated on
\* Grid in units of 1/unit, and the objective is taken times 2 unit s[2]
\* (s is the rational s[1] / s[2]).
prox(F, unit, s, xv) ==
    LET Grid == DOMAIN F
        obj(yv) ==
            ExtAdd(ExtScale(2 * s[1], F[yv]),
                   Fin(s[2] * unit * dist2(xv, yv, Len(xv))))
        objs == [yv \in Grid |-> obj(yv)]
        m == ExtMin({objs[yv] : yv \in Grid})
    IN  {yv \in Grid : objs[yv] = m}

\* f_1(z_1) = ||z_1 - y||_2^2 and f_2(z_2) = alpha ||z_2||_1 of the PDHG
\* notebook, in units of 1 / (denominator of alpha)
f_1(z1, yv, a) == Fin(a[2] * dist2(z1, yv, Len(z1)))
f_2(z2, a) == Fin(a[1] * norm1(z2, Len(z2)))
\* the separable sum f(z) = f_1(z_1) + f_2(z_2); z is z_1 followed by z_2,
\* and z_1 is as long as y
part1(z, n) == SubSeq(z, 1, n)
part2(z, n) == SubSeq(z, n + 1, Len(z))
f_sum_coupled(z, yv, a) ==
    ExtAdd(f_1(part1(z, Len(yv)), yv, a),
           f_2(vec_add(part1(z, Len(yv)), part2(z, Len(yv))), a))
f_sum(z, yv, a) ==
    ExtAdd(f_1(part1(z, Len(yv)), yv, a), f_2(part2(z, Len(yv)), a))

\* ------------------------------------------ the operators applied to a vector
\* grad = odl.Gradient(X) on a row of samples of unit spacing: forward
\* differences; a constant vector is mapped to 0 (the notebook: "from a
\* constant vector ... the gradient would produce 0")
grad_op_padded(xv) ==
    [i \in 1..Len(xv) |-> IF i < Len(xv) THEN xv[i + 1] - xv[i] ELSE -xv[i]]
grad_op(xv) ==
    [i \in 1..Len(xv) |-> IF i < Len(xv) THEN xv[i + 1] - xv[i] ELSE 0]

\* the adjoint of grad_op
grad_op_adjoint(p) ==
    [i \in 1..Len(p) |->
        (IF i > 1 THEN p[i - 1] ELSE 0) - (IF i < Len(p) THEN p[i] ELSE 0)]

\* op(xv) and op.adjoint(z) for op = grad and op = L = BroadcastOperator(I,
\* grad), whose values are z_1 followed by z_2
op_apply(op, xv) ==
    IF op = "grad" THEN grad_op(xv) ELSE xv \o grad_op(xv)
op_adjoint(op, z) ==
    IF op = "grad" THEN grad_op_adjoint(z)
    ELSE LET n == Len(z) \div 2
         IN  vec_add(part1(z, n), grad_op_adjoint(part2(z, n)))

\* ---------------------------------------------------------- the power method
\* maxiter of the two calls of odl.power_method_opnorm
maxiter == 20

\* the greatest common divisor of the first k entries of v
RECURSIVE vec_gcd(_, _)
vec_gcd(v, k) == IF k = 0 THEN 0 ELSE Gcd(vec_gcd(v, k - 1), Abs(v[k]))

\* x / ||x||: the direction of a nonzero x, kept in integers by dividing by
\* the common divisor of the entries in place of the norm
normalised(v) ==
    LET d == vec_gcd(v, Len(v))
    IN  [i \in 1..Len(v) |-> v[i] \div d]

\* one step of the power method for an operator between different spaces:
\* x <- op.adjoint(op(x))
pm_next(op, xv) == op_adjoint(op, op_apply(op, xv))

\* the iterates of k steps from xv; the iteration stops at an iterate 0,
\* which the power method rejects with a ValueError
RECURSIVE pm_iterates(_, _, _)
pm_iterates(op, xv, k) ==
    IF k = 0 THEN <<>>
    ELSE LET nx == pm_next(op, xv)
         IN  IF nx = Zero(Len(nx)) THEN <<nx>>
             ELSE <<normalised(nx)>> \o pm_iterates(op, normalised(nx), k - 1)

\* odl.power_method_opnorm(op, xstart=xstart, maxiter=maxit): whether it
\* returns or raises, and the iterates it went through (the first PmIter)
power_method_opnorm(op, xstart, maxit) ==
    IF xstart = Zero(Len(xstart))
    THEN [status |-> "ValueError", iterates |-> <<>>]
    ELSE LET k == IF maxit < PmIter THEN maxit ELSE PmIter
             its == pm_iterates(op, xstart, k)
             last == its[Len(its)]
         IN  [status |-> IF last = Zero(Len(last)) THEN "ValueError" ELSE "ok",
              iterates |-> its]

\* the operator and the seed of the call in the Douglas-Rachford notebook,
\* power_method_opnorm(grad, xstart=y, ...), and in the PDHG notebook,
\* power_method_opnorm(L, xstart=y, ...)
opnorm_call_from_x(site, yv) ==
    [op |-> IF site = "dr" THEN "grad" ELSE "L", xstart |-> Zero(Len(yv))]
opnorm_call(site, yv) ==
    [op |-> IF site = "dr" THEN "grad" ELSE "L", xstart |-> yv]

\* the TV denoising problem of the two denoising notebooks,
\*   min_{x >= 0} ||x - y||_2^2 + alpha ||grad x||_1,
\* in units of 1 / (denominator of alpha)
tv_objective_free(xv, yv, a) ==
    ExtAdd(f_1(xv, yv, a), f_2(grad_op(xv), a))
tv_objective(xv, yv, a) ==
    ExtAdd(ExtAdd(f_1(xv, yv, a), f_2(grad_op(xv), a)), iota_0(xv))

\* the minimisers of the problem over the points of Grid: what a run of the
\* solver that converges, converges to
tv_minimisers(yv, a, Grid) ==
    LET objs == [xv \in Grid |-> tv_objective(xv, yv, a)]
        m == ExtMin({objs[xv] : xv \in Grid})
    IN  {xv \in Grid : objs[xv] = m}

\* ------------------------------------------------------- notebook parameters
\* alpha = 0.15 (Douglas-Rachford notebook), alpha = 2.15 (PDHG notebook)
alpha_dr == Rat(15, 100)
alpha_pdhg == Rat(215, 100)
\* lam = 0.01 and eps = 5.0 of the sparse-angle notebook
lam == Rat(1, 100)
eps == 5

\* niter of the three solver calls
niter_dr == 200
niter_pdhg == 200
niter_sparse == 20

\* the values of the tunable step-size parameters: the notebook's tau = 1.5
\* and some a reader may try instead (the notebook: "trial-and-error")
Taus == {Rat(3, 2), RInt(2)}
\* c of the rule of thumb sigma_i = c / opnorm_i^2, besides c = 3 / (n tau)
Cs == {RInt(1)}
\* the step sizes of the sparse-angle call: tau=0.1, sigma=[0.1, 0.02]
tau_sparse == Rat(1, 10)
sigma_sparse == <<Rat(1, 10), Rat(1, 50)>>

\* what odl.power_method_opnorm may return (maxiter=20): the environment's
\* choice; 20/11 makes the scaled norm exactly 2, and 3 is the norm of
\* (I, gradient) on unit pixels
Estimates == {Rat(20, 11), RInt(3)}

DataMatchings == {"exact", "inexact", "other"}

\* images and sinograms, in grid units
Images == Vectors(Npix, MaxPix)
NoisyImages ==
    {[i \in 1..Npix |-> IF i = Npix THEN -1 ELSE MaxPix],
     [i \in 1..Npix |-> MaxPix]}
Sinograms == {[i \in 1..Npix |-> IF i = 1 THEN MaxPix ELSE 0]}
\* raw_noise * eps / raw_noise.norm(): a nonzero perturbation
Noises == {[i \in 1..Npix |-> IF i = Npix THEN -1 ELSE 0]}

\* --------------------------------------------------------------------- state
VARIABLES
    nb,             \* the notebook being run: "dr", "sparse" or "pdhg"
    pc,             \* the cell that runs next, "running", "done" or "error"
    data_matching,  \* sparse-angle: the data_matching parameter
    y,              \* the noisy image of the denoising notebooks
    data,           \* sparse-angle: the sinogram
    x,              \* the iterate
    f, g, L,        \* functionals and operators (sparse-angle: L is lin_ops)
    est,            \* what power_method_opnorm returned
    opnorms,        \* dr: opnorms; pdhg: <<L_norm>>
    tau, sigmas,    \* step sizes (pdhg: sigmas is <<sigma>>)
    niter, iter,    \* the solver's niter argument and the iterations run
    err, errmsg,    \* the exception that ended the run, and its message
    out,            \* what check_params printed
    checked,        \* check_params ran and its assertion passed
    fn, arg, res,   \* the pointwise function applied, its input, its result
    files,          \* part2: the MNIST files are in ./data
    downloads,      \* part2: how often the files were fetched
    run,            \* part2: which execution of the notebook this is
    cell,           \* part2: the training cell being run
    dset_train, dset_test,      \* part2: the datasets are constructed
    use_cuda, learning_rate, log_interval, epochs,  \* part2: the config
    optimizer,      \* part2: the optimizer's param_group and step count
    lr_scheduler,   \* part2: the StepLR object, once created
    epoch, batch_idx,           \* part2: the loop variables
    model,          \* part2: the network of the training cell
    events,         \* part2: what the training cell has done, in order
    test_images,    \* part2: the validation batch
    fbp_recos,      \* part2: the module-level name fbp_recos
    printed         \* part2: lines in the training cell's output

nbvars ==
    <<nb, pc, data_matching, y, data, x, f, g, L, est, opnorms, tau, sigmas,
      niter, iter, err, errmsg, out, checked>>
fnvars == <<fn, arg, res>>
configvars == <<use_cuda, learning_rate, log_interval, epochs>>
mlvars ==
    <<files, downloads, run, cell, dset_train, dset_test, configvars,
      optimizer, lr_scheduler, epoch, batch_idx, printed, model,
      events, test_images, fbp_recos>>
vars == <<nbvars, fnvars, mlvars>>

NoArg == [fn |-> "", x |-> <<>>, sigma |-> 0, w |-> <<>>]

\* before the first cell of a notebook
NbIdle ==
    /\ pc = "start"
    /\ data_matching = ""
    /\ y = <<>> /\ data = <<>> /\ x = <<>>
    /\ f = NoFunctional /\ g = <<>> /\ L = <<>>
    /\ est = RInt(0) /\ opnorms = <<>> /\ tau = RInt(0) /\ sigmas = <<>>
    /\ niter = 0 /\ iter = 0
    /\ err = "" /\ errmsg = NoMessage /\ out = <<>>
    /\ checked = FALSE

FnIdle == fn = "" /\ arg = NoArg /\ res = <<>>

NoOptimizer == [lr |-> RInt(0), steps |-> 0]
NoNet == [name |-> "", training |-> FALSE, params |-> 0, grad |-> {}]
\* an unbound name
NoValue == [src |-> "", epoch |-> 0, batch |-> 0]
NoScheduler == [step_size |-> 0, gamma |-> RInt(0), last_epoch |-> 0]

\* a kernel before its first cell: no name is bound
KernelFresh ==
    /\ cell = ""
    /\ dset_train = FALSE /\ dset_test = FALSE
    /\ use_cuda = FALSE /\ learning_rate = RInt(0)
    /\ log_interval = 0 /\ epochs = 0
    /\ optimizer = NoOptimizer /\ lr_scheduler = NoScheduler
    /\ epoch = 0 /\ batch_idx = 0 /\ printed = 0
    /\ model = NoNet /\ events = <<>>
    /\ test_images = NoValue /\ fbp_recos = NoValue

MlIdle == files = FALSE /\ downloads = 0 /\ run = 0 /\ KernelFresh

Init ==
    /\ nb \in {"dr", "sparse", "pdhg"}
    /\ NbIdle
    /\ FnIdle
    /\ MlIdle

\* ------------------------------------------- Douglas-Rachford denoising cells
\* cell "Generate test image ...": y = x_true + 0.1 * white_noise(X)
dr_image ==
    /\ nb = "dr" /\ pc = "start"
    /\ \E v \in NoisyImages : y' = v
    /\ pc' = "problem"
    /\ UNCHANGED <<nb, data_matching, data, x, f, g, L, est, opnorms, tau,
                   sigmas, niter, iter, err, errmsg, out, checked>>
    /\ UNCHANGED <<fnvars, mlvars>>

\* the functionals g[i] of the Douglas-Rachford notebook
dr_g_on_X(grad) ==
    <<translated(L2NormSquared(X), y), scaled(L1Norm(X), alpha_dr)>>
dr_g(grad) ==
    <<translated(L2NormSquared(X), y), scaled(L1Norm(grad.range), alpha_dr)>>

\* cell "ident = ...": f, g, L, and x = X.zero()
dr_problem ==
    /\ nb = "dr" /\ pc = "problem"
    /\ f' = IndicatorNonnegativity(X)
    /\ g' = dr_g(Gradient(X))
    /\ L' = <<IdentityOperator(X), Gradient(X)>>
    /\ x' = Zero(Npix)
    /\ pc' = "params"
    /\ UNCHANGED <<nb, data_matching, y, data, est, opnorms, tau, sigmas,
                   niter, iter, err, errmsg, out, checked>>
    /\ UNCHANGED <<fnvars, mlvars>>

\* opnorms = [1, grad_norm], grad_norm = 1.1 * power_method_opnorm(...)
dr_opnorms(e) == <<RInt(1), RMul(safety, e)>>

\* the sigmas a reader may set for a given tau: the notebook's rule
\* c = 3 / (n tau), or the rule of thumb with another c
dr_sigmas(t, norms) ==
    {balanced_sigmas(cc, norms) : cc \in Cs \cup {rule_c(t, norms)}}

\* check_params(tau, sigmas), called with t and sigs
check_params(t, sigs) ==
    IF assert_ok(check_value(t, sigs, opnorms'))
    THEN /\ out' = out \o <<printed_sum(t, sigs, opnorms'),
                            printed_ok(t, sigs, opnorms')>>
         /\ checked' = TRUE
         /\ pc' = "solve"
         /\ UNCHANGED <<err, errmsg>>
    ELSE /\ out' = Append(out, printed_sum(t, sigs, opnorms'))
         /\ err' = "AssertionError"
         /\ errmsg' = assert_message(t, sigs, opnorms')
         /\ pc' = "error"
         /\ UNCHANGED checked

\* cell "grad_norm = ...": the norms, check_params, tau, c, sigmas and the
\* call check_params(tau, sigmas); a failed assertion ends the run
dr_params ==
    /\ nb = "dr" /\ pc = "params"
    /\ \E e \in Estimates :
          /\ est' = e
          /\ opnorms' = dr_opnorms(e)
    /\ \E t \in Taus :
          /\ tau' = t
          /\ \E s \in dr_sigmas(t, opnorms') :
                /\ sigmas' = s
                /\ check_params(t, s)
    /\ UNCHANGED <<nb, data_matching, y, data, x, f, g, L, niter, iter>>
    /\ UNCHANGED <<fnvars, mlvars>>

\* cell "Starting point": x = X.zero() and the call
\* douglas_rachford_pd(x, f, g, L, tau=tau, sigma=sigmas, niter=200)
dr_solve ==
    /\ nb = "dr" /\ pc = "solve"
    /\ x' = Zero(Npix)
    /\ niter' = niter_dr
    /\ iter' = 0
    /\ pc' = "running"
    /\ UNCHANGED <<nb, data_matching, y, data, f, g, L, est, opnorms, tau,
                   sigmas, err, errmsg, out, checked>>
    /\ UNCHANGED <<fnvars, mlvars>>

\* ------------------------------------------------------- sparse-angle cells
ray_trafo == RayTransform(space)

\* cell "# Parameters": data_matching and data = ray_trafo(phantom)
sparse_parameters ==
    /\ nb = "sparse" /\ pc = "start"
    /\ \E m \in DataMatchings : data_matching' = m
    /\ \E d \in Sinograms : data' = d
    /\ pc' = "problem"
    /\ UNCHANGED <<nb, y, x, f, g, L, est, opnorms, tau, sigmas, niter, iter,
                   err, errmsg, out, checked>>
    /\ UNCHANGED <<fnvars, mlvars>>

\* indicator_zero.translated(data)
indicator_exact(d) == translated(IndicatorZero(ray_trafo.range), d)
\* indicator_l2_ball.translated(data / eps) * (1 / eps)
indicator_inexact(d) ==
    [translated(IndicatorLpUnitBall(ray_trafo.range), d)
        EXCEPT !.shift_div = eps, !.arg_scale = Rat(1, eps)]
\* cross_norm = lam * odl.solvers.GroupL1Norm(gradient.range)
cross_norm(gradient) == scaled(GroupL1Norm(gradient.range), lam)

\* the cell with a bare else in place of elif data_matching == 'inexact'
sparse_problem_else_inexact ==
    /\ nb = "sparse" /\ pc = "problem"
    /\ f' = IndicatorBox(space)
    /\ \/ /\ data_matching = "exact"
          /\ data' = data
          /\ g' = <<indicator_exact(data'), cross_norm(Gradient(space))>>
       \/ /\ data_matching # "exact"
          /\ \E n \in Noises : data' = vec_add(data, n)
          /\ g' = <<indicator_inexact(data'), cross_norm(Gradient(space))>>
    /\ L' = <<ray_trafo, Gradient(space)>>
    /\ pc' = "solve"
    /\ UNCHANGED <<nb, data_matching, y, x, est, opnorms, tau, sigmas, niter,
                   iter, out, checked, err, errmsg>>
    /\ UNCHANGED <<fnvars, mlvars>>

\* cell "gradient = ...": f, the data functional of the chosen mode,
\* cross_norm, lin_ops and g; an unknown mode raises RuntimeError
sparse_problem ==
    /\ nb = "sparse" /\ pc = "problem"
    /\ f' = IndicatorBox(space)
    /\ \/ /\ data_matching = "exact"
          /\ data' = data
          /\ L' = <<ray_trafo, Gradient(space)>>
          /\ g' = <<indicator_exact(data'), cross_norm(Gradient(space))>>
          /\ pc' = "solve"
          /\ UNCHANGED <<err, errmsg>>
       \/ /\ data_matching = "inexact"
          /\ \E n \in Noises : data' = vec_add(data, n)
          /\ L' = <<ray_trafo, Gradient(space)>>
          /\ g' = <<indicator_inexact(data'), cross_norm(Gradient(space))>>
          /\ pc' = "solve"
          /\ UNCHANGED <<err, errmsg>>
       \/ /\ data_matching \notin {"exact", "inexact"}
          /\ err' = "RuntimeError"
          /\ errmsg' = [text |-> "unknown data_matching", args |-> <<>>]
          /\ pc' = "error"
          /\ UNCHANGED <<data, L, g>>
    /\ UNCHANGED <<nb, data_matching, y, x, est, opnorms, tau, sigmas, niter,
                   iter, out, checked>>
    /\ UNCHANGED <<fnvars, mlvars>>

\* cell "Solve with initial guess x = 0": x = ray_trafo.domain.zero() and
\* douglas_rachford_pd(x, f, g, lin_ops, tau=0.1, sigma=[0.1, 0.02],
\*                     lam=1.5, niter=20, callback=callback)
sparse_solve ==
    /\ nb = "sparse" /\ pc = "solve"
    /\ x' = Zero(Npix)
    /\ tau' = tau_sparse
    /\ sigmas' = sigma_sparse
    /\ niter' = niter_sparse
    /\ iter' = 0
    /\ pc' = "running"
    /\ UNCHANGED <<nb, data_matching, y, data, f, g, L, est, opnorms, err,
                   errmsg, out, checked>>
    /\ UNCHANGED <<fnvars, mlvars>>

\* ------------------------------------------------------ PDHG denoising cells
\* cells "image = ..." to "y = x_true + 0.1 * white_noise(X, seed=42)"
pdhg_image ==
    /\ nb = "pdhg" /\ pc = "start"
    /\ \E v \in NoisyImages : y' = v
    /\ pc' = "problem"
    /\ UNCHANGED <<nb, data_matching, data, x, f, g, L, est, opnorms, tau,
                   sigmas, niter, iter, err, errmsg, out, checked>>
    /\ UNCHANGED <<fnvars, mlvars>>

\* f_1, f_2 and f = SeparableSum(f_1, f_2)
pdhg_f(grad) ==
    SeparableSum(translated(L2NormSquared(X), y),
                 scaled(L1Norm(grad.range), alpha_pdhg))

\* cells "grad = ..." to "g = ...": L = BroadcastOperator(I, grad), f, g
pdhg_problem ==
    /\ nb = "pdhg" /\ pc = "problem"
    /\ L' = BroadcastOperator(IdentityOperator(X), Gradient(X))
    /\ f' = pdhg_f(Gradient(X))
    /\ g' = IndicatorNonnegativity(X)
    /\ pc' = "params"
    /\ UNCHANGED <<nb, data_matching, y, data, x, est, opnorms, tau, sigmas,
                   niter, iter, err, errmsg, out, checked>>
    /\ UNCHANGED <<fnvars, mlvars>>

\* L_norm = 1.1 * odl.power_method_opnorm(L, xstart=y, maxiter=20)
L_norm_unscaled(e) == e
L_norm(e) == RMul(safety, e)

\* cell "L_norm = ...": L_norm, tau = 1.0 / L_norm, sigma = 1.0 / L_norm
pdhg_params ==
    /\ nb = "pdhg" /\ pc = "params"
    /\ \E e \in Estimates :
          /\ est' = e
          /\ opnorms' = <<L_norm(e)>>
          /\ tau' = pdhg_step(L_norm(e))
          /\ sigmas' = <<pdhg_step(L_norm(e))>>
    /\ pc' = "solve"
    /\ UNCHANGED <<nb, data_matching, y, data, x, f, g, L, niter, iter, err,
                   errmsg, out, checked>>
    /\ UNCHANGED <<fnvars, mlvars>>

\* cell "Starting point": x = X.zero() and
\* pdhg(x, g, f, L, tau=tau, sigma=sigma, niter=200)
pdhg_solve_from_y ==
    /\ nb = "pdhg" /\ pc = "solve"
    /\ x' = y
    /\ niter' = niter_pdhg
    /\ iter' = 0
    /\ pc' = "running"
    /\ UNCHANGED <<nb, data_matching, y, data, f, g, L, est, opnorms, tau,
                   sigmas, err, errmsg, out, checked>>
    /\ UNCHANGED <<fnvars, mlvars>>
pdhg_solve ==
    /\ nb = "pdhg" /\ pc = "solve"
    /\ x' = Zero(Npix)
    /\ niter' = niter_pdhg
    /\ iter' = 0
    /\ pc' = "running"
    /\ UNCHANGED <<nb, data_matching, y, data, f, g, L, est, opnorms, tau,
                   sigmas, err, errmsg, out, checked>>
    /\ UNCHANGED <<fnvars, mlvars>>

\* ------------------------------------------------------------ the solver run
\* the loop of the solver goes on while fewer than niter iterations ran
loop_continues_le(k, n) == k <= n
loop_continues(k, n) == k < n

\* one iteration: the iterate x is updated in place
solver_iteration ==
    /\ pc = "running"
    /\ loop_continues(iter, niter)
    /\ \E v \in Images : x' = v
    /\ iter' = iter + 1
    /\ UNCHANGED <<nb, pc, data_matching, y, data, f, g, L, est, opnorms,
                   tau, sigmas, niter, err, errmsg, out, checked>>
    /\ UNCHANGED <<fnvars, mlvars>>

\* the solver returns when its loop is exhausted
solver_return ==
    /\ pc = "running"
    /\ ~loop_continues(iter, niter)
    /\ pc' = "done"
    /\ UNCHANGED <<nb, data_matching, y, data, x, f, g, L, est, opnorms, tau,
                   sigmas, niter, iter, err, errmsg, out, checked>>
    /\ UNCHANGED <<fnvars, mlvars>>

\* ------------------------------------------- the pointwise functions applied
Arrays == Vectors(Dim, MaxVal)
\* the sigma handed to soft_shrink (the notebook plots sigma = 1)
Shrinks == (-1)..MaxVal
\* the step sizes the proximals are taken at
SumSteps == {Rat(1, 5), Rat(1, 2)}
StepSizes == SumSteps \cup {RInt(2)}
\* the points of the product space X x X^d, z_1 followed by z_2
Pairs == {u \o v : u \in Images, v \in Images}

\* tau and the operator norms the rule of thumb is tried with
RuleTaus == {Rat(1, 10), Rat(3, 2), RInt(2), RInt(5)}
RuleNorms == {RInt(1), RInt(2), Rat(33, 10)}
NormLists ==
    UNION {[1..n -> RuleNorms] : n \in 1..3}

\* regularisation weights alpha > 0: those of the notebooks and a larger one
Alphas == {alpha_dr, alpha_pdhg, RInt(5)}

\* y = x_true + 0.1 * white_noise(X) of a photograph: the noise makes the
\* samples differ
NoisySeeds == {v \in Arrays : ~ \E c \in (-MaxVal)..MaxVal : IsConstant(v, c)}

\* the calls the harness makes: the function and its arguments
Calls ==
    [fn : {"soft_shrink"}, x : Arrays, sigma : Shrinks, w : {<<>>}]
    \cup [fn : {"IndicatorNonnegativity"}, x : Arrays, sigma : StepSizes,
          w : {<<>>}]
    \cup [fn : {"SeparableSum"}, x : NoisyImages, sigma : SumSteps,
          w : Pairs]
    \cup [fn : {"rule_of_thumb"}, tau : RuleTaus, opnorms : NormLists]
    \cup [fn : {"tv_denoise"}, y : Arrays, alpha : Alphas]
    \cup [fn : {"opnorm"}, site : {"dr", "pdhg"}, y : NoisySeeds]
    \cup [fn : {"power_method_opnorm"}, op : {"grad", "L"}, xstart : Arrays]

apply_soft_shrink ==
    /\ fn = "call" /\ arg.fn = "soft_shrink"
    /\ res' = soft_shrink(arg.x, arg.sigma)
    /\ fn' = "soft_shrink"
    /\ UNCHANGED <<arg, nbvars, mlvars>>

\* the nonnegativity indicator: its value at arg.x and its proximal there
apply_indicator ==
    /\ fn = "call" /\ arg.fn = "IndicatorNonnegativity"
    /\ res' = [value |-> iota_0(arg.x),
               prox |-> prox([z \in Arrays |-> iota_0(z)], 1, arg.sigma, arg.x)]
    /\ fn' = "IndicatorNonnegativity"
    /\ UNCHANGED <<arg, nbvars, mlvars>>

\* the proximal of f = SeparableSum(f_1, f_2) at the point arg.w, where
\* f_1 is translated by arg.x
apply_separable_sum ==
    /\ fn = "call" /\ arg.fn = "SeparableSum"
    /\ res' = prox([z \in Pairs |-> f_sum(z, arg.x, alpha_pdhg)],
                   alpha_pdhg[2], arg.sigma, arg.w)
    /\ fn' = "SeparableSum"
    /\ UNCHANGED <<arg, nbvars, mlvars>>

\* the rule of thumb of the Douglas-Rachford notebook for arg.tau and
\* arg.opnorms
apply_rule_of_thumb ==
    /\ fn = "call" /\ arg.fn = "rule_of_thumb"
    /\ res' = rule_of_thumb(arg.tau, arg.opnorms)
    /\ fn' = "rule_of_thumb"
    /\ UNCHANGED <<arg, nbvars, mlvars>>

\* TV denoising of the data arg.y with weight arg.alpha: the minimisers of
\* the problem the solver is called on
apply_tv_denoise ==
    /\ fn = "call" /\ arg.fn = "tv_denoise"
    /\ res' = tv_minimisers(arg.y, arg.alpha, Arrays)
    /\ fn' = "tv_denoise"
    /\ UNCHANGED <<arg, nbvars, mlvars>>

\* the norm estimate of the notebook arg.site with the noisy image arg.y
apply_opnorm ==
    /\ fn = "call" /\ arg.fn = "opnorm"
    /\ LET c == opnorm_call(arg.site, arg.y)
       IN  res' = [call |-> c,
                   pm |-> power_method_opnorm(c.op, c.xstart, maxiter)]
    /\ fn' = "opnorm"
    /\ UNCHANGED <<arg, nbvars, mlvars>>

\* the power method on arg.op from any seed arg.xstart
apply_power_method ==
    /\ fn = "call" /\ arg.fn = "power_method_opnorm"
    /\ res' = [call |-> [op |-> arg.op, xstart |-> arg.xstart],
               pm |-> power_method_opnorm(arg.op, arg.xstart, maxiter)]
    /\ fn' = "power_method_opnorm"
    /\ UNCHANGED <<arg, nbvars, mlvars>>

FnInit ==
    /\ nb = ""
    /\ NbIdle
    /\ fn = "call"
    /\ arg \in Calls
    /\ res = <<>>
    /\ MlIdle

FnNext ==
    \/ apply_soft_shrink \/ apply_indicator \/ apply_separable_sum
    \/ apply_rule_of_thumb \/ apply_tv_denoise
    \/ apply_opnorm \/ apply_power_method

SpecFn == FnInit /\ [][FnNext]_vars

\* ------------------------------------ part2_classification_pytorch: IterativeNet
\* samples are integers; a batch of images or of data is one integer
relu(v) == IF v < 0 THEN 0 ELSE v

\* fwd_op_mod, fwd_op_adj_mod and fbp_op_mod applied to a value: the forward
\* operator, its adjoint, and an approximate inverse
fwd_op(c) == 2 * c
fwd_op_adj(r) == 2 * r
fbp_op(r) == r \div 2

\* setattr(self, name, value) on the attributes of a module
setattr(attrs, name, value) ==
    [n \in DOMAIN attrs \cup {name} |-> IF n = name THEN value ELSE attrs[n]]

\* 'mod_block_iter_{}'.format(it)
block_name_shared(it) == <<"mod_block_iter", 0>>
block_name(it) == <<"mod_block_iter", it>>

\* the loop "for it in range(niter)" of __init__ from it on: a new block of
\* three new convolutions is registered under block_name(it); created counts
\* the blocks made so far, weights[it] are the initial weights of the block
RECURSIVE make_blocks(_, _, _, _)
make_blocks(attrs, it, n, weights) ==
    IF it >= n THEN attrs
    ELSE LET mod_block == [id |-> it + 1, mods |-> weights[it]]
         IN  make_blocks(setattr(attrs, block_name(it), mod_block),
                         it + 1, n, weights)

\* IterativeNet(niter, op, op_adj, init_op): the fields and the registered
\* blocks
IterativeNet(n, init_op, weights) ==
    [niter |-> n, init_op |-> init_op,
     attrs |-> make_blocks(<<>>, 0, n, weights)]

\* a convolution with weights w on the channels dx: one output channel
RECURSIVE conv_sum(_, _, _)
conv_sum(w, dx, k) ==
    IF k = 0 THEN 0 ELSE conv_sum(w, dx, k - 1) + w[k] * dx[k]
conv(w, dx) == <<conv_sum(w, dx, Len(dx))>>

\* the loop over mod_block with F.relu applied after every mod
RECURSIVE apply_mods_relu_all(_, _, _)
apply_mods_relu_all(mods, i, dx) ==
    IF i >= Len(mods) THEN dx
    ELSE LET r == conv(mods[i + 1], dx)
         IN  apply_mods_relu_all(mods, i + 1, [k \in 1..Len(r) |-> relu(r[k])])

\* for i, mod in enumerate(mod_block): dx = mod(dx);
\* if i < len(mod_block) - 1: dx = F.relu(dx)      (mods from the i-th on)
RECURSIVE apply_mods(_, _, _)
apply_mods(mods, i, dx) ==
    IF i >= Len(mods) THEN dx
    ELSE LET r == conv(mods[i + 1], dx)
         IN  apply_mods(mods, i + 1,
                        IF i < Len(mods) - 1
                        THEN [k \in 1..Len(r) |-> relu(r[k])] ELSE r)

\* the loop "for it in range(self.niter)" of forward from it on; log
\* records each iteration: the block looked up, cur, grad, dx, the new cur
\* and the y the iteration saw; no statement of the loop writes to y
RECURSIVE forward_loop(_, _, _, _, _)
forward_loop(net, yv, it, cur, log) ==
    IF it >= net.niter
    THEN [status |-> "ok", out |-> cur, log |-> log, y |-> yv]
    ELSE IF block_name(it) \notin DOMAIN net.attrs
    THEN [status |-> "AttributeError", out |-> cur, log |-> log, y |-> yv]
    ELSE LET mod_block == net.attrs[block_name(it)]
             grad == fwd_op_adj(fwd_op(cur) - yv)
             dx == apply_mods(mod_block.mods, 0, <<cur, grad>>)[1]
         IN  forward_loop(net, yv, it + 1, cur + dx,
                          Append(log, [it |-> it, block |-> mod_block.id,
                                       cur |-> cur, grad |-> grad, dx |-> dx,
                                       new |-> cur + dx, y |-> yv]))

\* forward(y)
forward(net, yv) ==
    LET cur == IF net.init_op = "None" THEN fwd_op_adj(yv) ELSE fbp_op(yv)
    IN  forward_loop(net, yv, 0, cur, <<>>)

\* ------------------------------ part2_classification_pytorch: show_image_matrix
\* indices is "None", a slice [lo, hi) or a list of positions (from 0);
\* batch[indices]: a slice is cut to the batch, a position beyond the batch
\* is an IndexError
index_ok(batch, indices) ==
    indices.kind = "list" =>
        \A k \in 1..Len(indices.at) : indices.at[k] < Len(batch)
index_select(batch, indices) ==
    IF indices.kind = "slice"
    THEN SubSeq(batch, indices.lo + 1,
                IF indices.hi < Len(batch) THEN indices.hi ELSE Len(batch))
    ELSE [k \in 1..Len(indices.at) |-> batch[indices.at[k] + 1]]

\* plt.subplots(nrows, ncols): one Axes for a 1 x 1 grid, a row of Axes when
\* nrows or ncols is 1, otherwise a row of Axes per grid row
Axes(r, c) == [row |-> r, col |-> c]
subplots(nrows, ncols) ==
    IF nrows = 1 /\ ncols = 1 THEN Axes(1, 1)
    ELSE IF nrows = 1 THEN [c \in 1..ncols |-> Axes(1, c)]
    ELSE IF ncols = 1 THEN [r \in 1..nrows |-> Axes(r, 1)]
    ELSE [r \in 1..nrows |-> [c \in 1..ncols |-> Axes(r, c)]]

\* zip(titles, displayed_batches, row) stops at the shortest of the three
zip3_len(a, b, c) ==
    LET m == IF Len(a) < Len(b) THEN Len(a) ELSE Len(b)
    IN  IF Len(c) < m THEN Len(c) ELSE m

\* rows as the loops see it: "if nrows == 1: rows = [rows]", and inside the
\* loop over rows "if ncols == 1: row = [row]"
wrapped_rows(axs, nrows, ncols) ==
    LET rows == IF nrows = 1 THEN <<axs>> ELSE axs
    IN  [i \in 1..Len(rows) |-> IF ncols = 1 THEN <<rows[i]>> ELSE rows[i]]

\* show_image_matrix(image_batches, titles, indices): the images drawn, each
\* with its Axes and the title set on it (titled FALSE: none was set), or
\* the exception raised
show_image_matrix(image_batches, titles, indices) ==
    IF indices.kind = "list"
          /\ \E j \in 1..Len(image_batches) :
                ~index_ok(image_batches[j], indices)
    THEN [status |-> "IndexError", drawn |-> {}]
    ELSE
    LET displayed_batches ==
            IF indices.kind = "None" THEN image_batches
            ELSE [j \in 1..Len(image_batches) |->
                     index_select(image_batches[j], indices)]
    IN  IF Len(displayed_batches) = 0
        THEN [status |-> "IndexError", drawn |-> {}]
        ELSE
        LET nrows == Len(displayed_batches[1])
            ncols == Len(displayed_batches)
            names == IF titles.given THEN titles.names
                     ELSE [j \in 1..ncols |-> ""]
        IN  IF nrows = 0 THEN [status |-> "ValueError", drawn |-> {}]
            ELSE
            LET rows == wrapped_rows(subplots(nrows, ncols), nrows, ncols)
                cells == {<<i, k>> \in (1..Len(rows)) \X (1..ncols) :
                             k <= zip3_len(names, displayed_batches, rows[i])}
            IN  IF \E ce \in cells : Len(displayed_batches[ce[2]]) < ce[1]
                THEN [status |-> "IndexError", drawn |-> {}]
                ELSE [status |-> "ok",
                      drawn |->
                        {[ax |-> rows[ce[1]][ce[2]],
                          image |-> displayed_batches[ce[2]][ce[1]],
                          titled |-> ce[1] = 1,
                          title |-> IF ce[1] = 1 THEN names[ce[2]] ELSE ""]
                            : ce \in cells}]

\* batch j holding n images: image i of batch j is <<j, i>>
Batch(j, n) == [i \in 1..n |-> <<j, i>>]
Batches ==
    UNION {{[j \in 1..c |-> Batch(j, lens[j])] : lens \in [1..c -> 0..MaxGrid]}
             : c \in 0..MaxGrid}
Titles ==
    {[given |-> FALSE, names |-> <<>>]}
    \cup {[given |-> TRUE, names |-> [j \in 1..n |-> "title"]]
             : n \in 0..MaxGrid}
Indices ==
    {[kind |-> "None"]}
    \cup {[kind |-> "slice", lo |-> s[1], hi |-> s[2]]
             : s \in {<<0, 1>>, <<1, MaxGrid>>, <<0, MaxGrid + 1>>}}
    \cup {[kind |-> "list", at |-> l] : l \in {<<0>>, <<1, 0>>, <<MaxGrid>>}}

\* the initial weights of a block: those of its three convolutions, the
\* first on the two channels (cur, grad)
BlockWeights == {<<<<1, -1>>, <<1>>, <<1>>>>, <<<<0, 1>>, <<2>>, <<-1>>>>}
\* the data a network is applied to
NetData == (-2)..2

\* ------------------------------------------------- part2: a notebook is run
\* the batches train_loader yields in one epoch (60000 / 50 in the notebook)
NBatches == 2
\* how often a notebook is executed, each time in a fresh kernel
MaxRuns == 2

\* the solver variables, which no cell of part2 touches
solvervars ==
    <<data_matching, y, data, x, f, g, L, est, opnorms, tau, sigmas, niter,
      iter, errmsg, out, checked>>

\* datasets.MNIST(root, train, download) when download=True fetches whatever
\* is in reach, cached or not
MNIST_no_exists_check(cached, train, download, reachable) ==
    IF download
    THEN IF reachable
         THEN [status |-> "ok", cached |-> TRUE, fetched |-> 1]
         ELSE [status |-> "URLError", cached |-> cached, fetched |-> 0]
    ELSE IF cached
         THEN [status |-> "ok", cached |-> cached, fetched |-> 0]
         ELSE [status |-> "RuntimeError", cached |-> cached, fetched |-> 0]

\* datasets.MNIST(root, train, download): download=True fetches the files
\* (training and test files together) unless they are in root already; then
\* the constructor raises RuntimeError('Dataset not found') if they are not
\* there. reachable: the download succeeds.
MNIST(cached, train, download, reachable) ==
    IF download /\ ~cached
    THEN IF reachable
         THEN [status |-> "ok", cached |-> TRUE, fetched |-> 1]
         ELSE [status |-> "URLError", cached |-> cached, fetched |-> 0]
    ELSE IF cached
         THEN [status |-> "ok", cached |-> cached, fetched |-> 0]
         ELSE [status |-> "RuntimeError", cached |-> cached, fetched |-> 0]

\* the training cells of a notebook, in the order they are run
TrainingCells(n) ==
    IF n = "mlp"
    THEN <<"mlp", "convnet">>
    ELSE <<"full_net", "denoise_net", "iter_net">>

\* the first four assignments of a training cell, and the optimizer it makes
CellConfig(c) ==
    IF c \in {"mlp", "convnet"}
    THEN [use_cuda |-> TRUE, learning_rate |-> Rat(1, 100),
          log_interval |-> 200, epochs |-> 10, optim |-> "SGD",
          scheduler |-> FALSE]
    ELSE [use_cuda |-> TRUE, learning_rate |-> Rat(1, 1000),
          log_interval |-> 20, epochs |-> 1, optim |-> "Adam",
          scheduler |-> c = "iter_net"]

\* an optimizer made without the lr argument: Adam's default
optim_default_lr(kind, lr) == [lr |-> Rat(1, 1000), steps |-> 0]

\* optim.SGD(params, lr=lr), optim.Adam(params, lr=lr)
optim(kind, lr) == [lr |-> lr, steps |-> 0]

RECURSIVE RPow(_, _)
RPow(a, k) == IF k = 0 THEN RInt(1) ELSE RMul(a, RPow(a, k - 1))

\* StepLR.get_lr(): base_lr * gamma ** (last_epoch // step_size)
get_lr(base_lr, sched) ==
    RMul(base_lr, RPow(sched.gamma, sched.last_epoch \div sched.step_size))

\* optim.lr_scheduler.StepLR(optimizer, step_size, gamma): the constructor
\* sets the optimizer's lr to get_lr() at last_epoch 0
StepLR(opt, step_size, gamma) ==
    LET sched == [step_size |-> step_size, gamma |-> gamma, last_epoch |-> 0]
    IN  [sched |-> sched, opt |-> [opt EXCEPT !.lr = get_lr(opt.lr, sched)]]

\* optimizer.zero_grad(); ...; optimizer.step(): the parameters move, the
\* param_group's lr is read
optimizer_step(opt) == [opt EXCEPT !.steps = @ + 1]

\* the batches test_loader yields (10000 / 50 in the notebook)
NTestBatches == 2
\* len(train_loader) in the notebook: 60000 images in batches of 50
len_train_loader == 1200

\* nn.Module(): a new network is in training mode
Module(name) == [name |-> name, training |-> TRUE, params |-> 0, grad |-> {}]
\* model.train()
train_mode(n) == [n EXCEPT !.training = TRUE]
\* a test() without model.eval()
eval_mode_skipped(n) == n
\* model.eval()
eval_mode(n) == [n EXCEPT !.training = FALSE]

\* one entry of the cell's history: what was done, and the network then
Ev(ev, e, b, n) ==
    [ev |-> ev, epoch |-> e, batch |-> b, training |-> n.training,
     grad |-> n.grad, params |-> n.params]

\* '{:.0f}'.format(100. * batch_idx / len(train_loader)): to the nearest
\* integer, halves to even
percent_printed(b, len) ==
    LET q == (100 * b) \div len
        r2 == 2 * ((100 * b) % len)
    IN  IF r2 > len THEN q + 1
        ELSE IF r2 < len THEN q
        ELSE IF q % 2 = 0 THEN q ELSE q + 1

\* the body of train's loop without optimizer.zero_grad()
train_body_no_zero_grad(n, opt, e, b, log_int, len) ==
    LET n2 == [n EXCEPT !.grad = @ \cup {<<e, b>>}]
        n3 == [n2 EXCEPT !.params = @ + 1]
    IN  [model |-> n3, optimizer |-> optimizer_step(opt),
         events |-> <<Ev("forward", e, b, n), Ev("loss", e, b, n),
                      Ev("backward", e, b, n2), Ev("step", e, b, n3)>>
                    \o (IF b % log_int = 0
                        THEN <<[ev |-> "print", epoch |-> e, batch |-> b,
                                percent |-> percent_printed(b, len)]>>
                        ELSE <<>>)]

\* the body of train's loop for batch b of epoch e: zero_grad empties the
\* gradient buffers, backward adds this batch's gradient to them, step moves
\* the parameters along the buffers, and every log_interval-th batch prints
train_body(n, opt, e, b, log_int, len) ==
    LET n1 == [n EXCEPT !.grad = {}]
        n2 == [n1 EXCEPT !.grad = @ \cup {<<e, b>>}]
        n3 == [n2 EXCEPT !.params = @ + 1]
    IN  [model |-> n3, optimizer |-> optimizer_step(opt),
         events |-> <<Ev("zero_grad", e, b, n1), Ev("forward", e, b, n1),
                      Ev("loss", e, b, n1), Ev("backward", e, b, n2),
                      Ev("step", e, b, n3)>>
                    \o (IF b % log_int = 0
                        THEN <<[ev |-> "print", epoch |-> e, batch |-> b,
                                percent |-> percent_printed(b, len)]>>
                        ELSE <<>>)]

\* an assignment to a name under a global statement
assign_with_global_statement(module_level, value) == value

\* what a module-level name holds after a function body assigned to the same
\* name: the function bound a local
assign_in_function(module_level, value) == module_level

\* the loop with the test i == 0 in place of i == 1
RECURSIVE pick_loop_first(_, _, _)
pick_loop_first(loader, i, images) ==
    IF i >= Len(loader)
    THEN [images |-> images, drawn |-> i]
    ELSE IF i = 0
         THEN [images |-> loader[i + 1], drawn |-> i + 1]
         ELSE pick_loop_first(loader, i + 1, loader[i + 1])

\* for i, (images, _) in enumerate(test_loader): if i == 1: break
RECURSIVE pick_loop(_, _, _)
pick_loop(loader, i, images) ==
    IF i >= Len(loader)
    THEN [images |-> images, drawn |-> i]
    ELSE IF i = 1
         THEN [images |-> loader[i + 1], drawn |-> i + 1]
         ELSE pick_loop(loader, i + 1, loader[i + 1])

\* the loop, then test_images = Variable(images): NameError when the loader
\* yielded nothing
pick_batch(loader) ==
    LET r == pick_loop(loader, 0, -1)
    IN  [status |-> IF r.images = -1 THEN "NameError" ELSE "ok",
         images |-> r.images, drawn |-> r.drawn]

\* the batches of test_loader, named by their index
TestLoader == [i \in 1..NTestBatches |-> i - 1]

\* the training cell after c, "" after the last
next_cell(n, c) ==
    LET cs == TrainingCells(n)
        k == CHOOSE i \in 1..Len(cs) : cs[i] = c
    IN  IF k < Len(cs) THEN cs[k + 1] ELSE ""

\* dset_train = datasets.MNIST('./data', train=True, download=True, ...)
mnist_train ==
    /\ nb \in {"mlp", "reco"} /\ pc = "start"
    /\ \E reachable \in BOOLEAN :
          LET r == MNIST(files, TRUE, TRUE, reachable)
          IN  /\ files' = r.cached
              /\ downloads' = downloads + r.fetched
              /\ IF r.status = "ok"
                 THEN dset_train' = TRUE /\ pc' = "dset_test" /\ err' = err
                 ELSE dset_train' = dset_train /\ pc' = "error"
                      /\ err' = r.status
    /\ UNCHANGED <<nb, solvervars, fnvars>>
    /\ UNCHANGED <<run, cell, dset_test, configvars, optimizer, lr_scheduler,
                   epoch, batch_idx, printed, model, events, test_images,
                   fbp_recos>>

\* dset_test = datasets.MNIST('./data', train=False, ...)
mnist_test ==
    /\ pc = "dset_test"
    /\ LET r == MNIST(files, FALSE, FALSE, FALSE)
       IN  IF r.status = "ok"
           THEN /\ dset_test' = TRUE
                /\ IF nb = "reco"
                   THEN pc' = "test_data" /\ cell' = cell
                   ELSE pc' = "config" /\ cell' = TrainingCells(nb)[1]
                /\ err' = err
           ELSE /\ dset_test' = dset_test
                /\ pc' = "error" /\ cell' = cell
                /\ err' = r.status
    /\ UNCHANGED <<nb, solvervars, fnvars>>
    /\ UNCHANGED <<files, downloads, run, dset_train, configvars, optimizer,
                   lr_scheduler, epoch, batch_idx, printed, model, events,
                   test_images, fbp_recos>>

\* cell "Get a batch of test images and generate test projection data"
test_data_cell ==
    /\ nb = "reco" /\ pc = "test_data"
    /\ LET r == pick_batch(TestLoader)
       IN  IF r.status = "ok"
           THEN /\ test_images' = [src |-> "test_loader", epoch |-> 0,
                                   batch |-> r.images]
                /\ pc' = "fbp" /\ err' = err
           ELSE /\ test_images' = test_images
                /\ pc' = "error" /\ err' = r.status
    /\ UNCHANGED <<nb, solvervars, fnvars>>
    /\ UNCHANGED <<files, downloads, run, cell, dset_train, dset_test,
                   configvars, optimizer, lr_scheduler, epoch, batch_idx,
                   printed, model, events, fbp_recos>>

\* cell "fbp_recos = fbp_op_mod(test_data)"
fbp_cell ==
    /\ nb = "reco" /\ pc = "fbp"
    /\ fbp_recos' = [src |-> "test_data", epoch |-> 0,
                     batch |-> test_images.batch]
    /\ pc' = "config" /\ cell' = TrainingCells(nb)[1]
    /\ UNCHANGED <<nb, err, solvervars, fnvars>>
    /\ UNCHANGED <<files, downloads, run, dset_train, dset_test, configvars,
                   optimizer, lr_scheduler, epoch, batch_idx, printed, model,
                   events, test_images>>

\* a training cell up to its loop: the config, the network made and moved to
\* the GPU (which fails on a machine without one), the optimizer and, for
\* the iterative network, the scheduler
cell_config ==
    /\ pc = "config"
    /\ LET c == CellConfig(cell)
       IN  /\ use_cuda' = c.use_cuda
           /\ learning_rate' = c.learning_rate
           /\ log_interval' = c.log_interval
           /\ epochs' = c.epochs
           /\ model' = Module(cell)
           /\ events' = <<>>
           /\ \E cuda_available \in BOOLEAN :
                 IF c.use_cuda /\ ~cuda_available
                 THEN /\ pc' = "error" /\ err' = "AssertionError"
                      /\ UNCHANGED <<optimizer, lr_scheduler>>
                 ELSE /\ pc' = "for_first" /\ err' = err
                      /\ LET opt == optim(c.optim, c.learning_rate)
                             s == StepLR(opt, 100, Rat(1, 10))
                         IN  IF c.scheduler
                             THEN /\ optimizer' = s.opt
                                  /\ lr_scheduler' = s.sched
                             ELSE /\ optimizer' = opt
                                  /\ lr_scheduler' = lr_scheduler
    /\ UNCHANGED <<nb, solvervars, fnvars>>
    /\ UNCHANGED <<files, downloads, run, cell, dset_train, dset_test, epoch,
                   batch_idx, printed, test_images, fbp_recos>>

\* what the for statement binds next, 0 when range(1, epochs + 1) is used up
next_epoch == LET k == IF pc = "for_first" THEN 1 ELSE epoch + 1
              IN  IF k <= epochs THEN k ELSE 0

\* for epoch in range(1, epochs + 1): train(epoch) is entered and puts the
\* network in training mode
for_epoch ==
    /\ pc \in {"for_first", "for_next"}
    /\ next_epoch # 0
    /\ epoch' = next_epoch
    /\ batch_idx' = -1
    /\ model' = train_mode(model)
    /\ events' = Append(events, Ev("train", epoch', -1, model'))
    /\ pc' = "train"
    /\ UNCHANGED <<nb, err, solvervars, fnvars>>
    /\ UNCHANGED <<files, downloads, run, cell, dset_train, dset_test,
                   configvars, optimizer, lr_scheduler, printed, test_images,
                   fbp_recos>>

\* the loop is used up: the cell ends; the cell after a training cell of the
\* reconstruction notebook shows the results
cell_end ==
    /\ pc \in {"for_first", "for_next"}
    /\ next_epoch = 0
    /\ IF nb = "reco"
       THEN cell' = cell /\ pc' = "results"
       ELSE IF next_cell(nb, cell) # ""
            THEN cell' = next_cell(nb, cell) /\ pc' = "config"
            ELSE cell' = cell /\ pc' = "done"
    /\ UNCHANGED <<nb, err, solvervars, fnvars>>
    /\ UNCHANGED <<files, downloads, run, dset_train, dset_test, configvars,
                   optimizer, lr_scheduler, epoch, batch_idx, printed, model,
                   events, test_images, fbp_recos>>

\* one batch of train(epoch); the denoising cell's train also assigns
\* fbp_recos = fbp_op_mod(projs)
train_batch ==
    /\ pc = "train"
    /\ batch_idx + 1 < NBatches
    /\ batch_idx' = batch_idx + 1
    /\ LET r == train_body(model, optimizer, epoch, batch_idx', log_interval,
                           NBatches)
       IN  /\ model' = r.model
           /\ optimizer' = r.optimizer
           /\ events' = events \o r.events
           /\ printed' = printed + Len(SelectSeq(r.events,
                                        LAMBDA v : v.ev = "print"))
    /\ fbp_recos' =
          IF cell = "denoise_net"
          THEN assign_in_function(fbp_recos,
                   [src |-> "projs", epoch |-> epoch, batch |-> batch_idx'])
          ELSE fbp_recos
    /\ UNCHANGED <<nb, pc, err, solvervars, fnvars>>
    /\ UNCHANGED <<files, downloads, run, cell, dset_train, dset_test,
                   configvars, lr_scheduler, epoch, test_images>>

\* train(epoch) returns when train_loader is used up
train_return ==
    /\ pc = "train"
    /\ batch_idx + 1 >= NBatches
    /\ pc' = "clear_output"
    /\ UNCHANGED <<nb, err, solvervars, fnvars, mlvars>>

\* clear_output()
clear_output ==
    /\ pc = "clear_output"
    /\ printed' = 0
    /\ pc' = "test"
    /\ UNCHANGED <<nb, err, solvervars, fnvars>>
    /\ UNCHANGED <<files, downloads, run, cell, dset_train, dset_test,
                   configvars, optimizer, lr_scheduler, epoch, batch_idx,
                   model, events, test_images, fbp_recos>>

\* test(): the network is put in evaluation mode and evaluated, and one line
\* is printed
test ==
    /\ pc = "test"
    /\ model' = eval_mode(model)
    /\ events' = events \o <<Ev("test", epoch, -1, model'),
                             Ev("test_forward", epoch, -1, model')>>
    /\ printed' = printed + 1
    /\ pc' = "for_next"
    /\ UNCHANGED <<nb, err, solvervars, fnvars>>
    /\ UNCHANGED <<files, downloads, run, cell, dset_train, dset_test,
                   configvars, optimizer, lr_scheduler, epoch, batch_idx,
                   test_images, fbp_recos>>

\* the cell after a training cell: test_res = model(test_data) and
\* results = [test_images.cpu(), fbp_recos.cpu(), ...] are shown
results_cell ==
    /\ nb = "reco" /\ pc = "results"
    /\ events' = Append(events,
                    [ev |-> "results", training |-> model.training,
                     params |-> model.params, truth |-> test_images,
                     fbp |-> fbp_recos])
    /\ IF next_cell(nb, cell) # ""
       THEN cell' = next_cell(nb, cell) /\ pc' = "config"
       ELSE cell' = cell /\ pc' = "done"
    /\ UNCHANGED <<nb, err, solvervars, fnvars>>
    /\ UNCHANGED <<files, downloads, run, dset_train, dset_test, configvars,
                   optimizer, lr_scheduler, epoch, batch_idx, printed, model,
                   test_images, fbp_recos>>

\* the notebook is executed again in a fresh kernel; ./data stays
run_again ==
    /\ nb \in {"mlp", "reco"}
    /\ pc \in {"done", "error"}
    /\ run < MaxRuns
    /\ run' = run + 1
    /\ pc' = "start" /\ err' = ""
    /\ cell' = "" /\ dset_train' = FALSE /\ dset_test' = FALSE
    /\ use_cuda' = FALSE /\ learning_rate' = RInt(0)
    /\ log_interval' = 0 /\ epochs' = 0
    /\ optimizer' = NoOptimizer /\ lr_scheduler' = NoScheduler
    /\ epoch' = 0 /\ batch_idx' = 0 /\ printed' = 0
    /\ model' = NoNet /\ events' = <<>>
    /\ test_images' = NoValue /\ fbp_recos' = NoValue
    /\ UNCHANGED <<nb, solvervars, fnvars, files, downloads>>

TrainInit ==
    /\ nb \in {"mlp", "reco"}
    /\ NbIdle
    /\ FnIdle
    /\ files \in BOOLEAN /\ downloads = 0 /\ run = 1
    /\ KernelFresh

TrainNext ==
    \/ mnist_train \/ mnist_test \/ test_data_cell \/ fbp_cell
    \/ cell_config
    \/ for_epoch \/ cell_end
    \/ train_batch \/ train_return \/ clear_output \/ test
    \/ results_cell
    \/ run_again

SpecTrain == TrainInit /\ [][TrainNext]_vars


\* ------------------------------------------- part2: the functions applied
\* the samples per batch and the batches per loader the functions are
\* applied to
MaxBatch == 2
MaxLoader == 2

\* a sample as test() sees it: the network's log-probabilities of the two
\* classes, and the label
Outputs == {<<0, -1>>, <<-1, 0>>}
Samples == {s \in [output : Outputs, target : 0..1] :
               s.output = <<0, -1>> \/ s.target = 1}
SampleBatches == UNION {[1..n -> Samples] : n \in 1..MaxBatch}
SampleLoaders == UNION {[1..n -> SampleBatches] : n \in 1..MaxLoader}

\* output.data.max(1, keepdim=True)[1]: the index of the max log-probability
argmax(v) == CHOOSE i \in 0..(Len(v) - 1) : \A j \in 1..Len(v) : v[i + 1] >= v[j]

\* F.nll_loss(output, target, size_average=False): the batch's losses summed
RECURSIVE nll_loss(_, _)
nll_loss(batch, i) ==
    IF i > Len(batch) THEN 0
    ELSE nll_loss(batch, i + 1) - batch[i].output[batch[i].target + 1]

\* pred.eq(target.data.view_as(pred)).cpu().sum()
batch_correct(batch) ==
    Cardinality({i \in 1..Len(batch) : argmax(batch[i].output) = batch[i].target})

\* an assignment where the code has +=
iadd_overwrite(acc, v) == v

\* acc += v
iadd(acc, v) == acc + v

\* for data, target in test_loader: ...
RECURSIVE test_loop(_, _, _)
test_loop(loader, j, acc) ==
    IF j > Len(loader) THEN acc
    ELSE test_loop(loader, j + 1,
            [test_loss |-> iadd(acc.test_loss, nll_loss(loader[j], 1)),
             correct |-> iadd(acc.correct, batch_correct(loader[j])),
             evaluated |-> acc.evaluated
                 \o [i \in 1..Len(loader[j]) |-> <<j, i>>]])

\* len(test_loader.dataset)
RECURSIVE dataset_len(_, _)
dataset_len(loader, j) ==
    IF j > Len(loader) THEN 0 ELSE Len(loader[j]) + dataset_len(loader, j + 1)

\* the loaders the batch selection is applied to: the batches 0..n-1 in any
\* order (shuffle=True)
MaxPick == 3
PickLoaders ==
    UNION {{l \in [1..n -> 0..(n - 1)] :
               \A i, j \in 1..n : l[i] = l[j] => i = j} : n \in 0..MaxPick}

\* the state of torch's default generator: the seed and the numbers drawn
\* since it was seeded
RngStates == [seed : {123, 7}, pos : 0..1]
\* torch.manual_seed(s)
manual_seed(sd) == [seed |-> sd, pos |-> 0]
\* torch.randn(shape): the next numbers of the generator's stream, which the
\* seed determines
randn(rng, n) ==
    [noise |-> [i \in 1..n |-> (((rng.seed + rng.pos + i) * 7) % 5) - 2],
     rng |-> [rng EXCEPT !.pos = @ + n]]

\* image batches: one pixel value per image
ImageBatches == UNION {[1..n -> 0..1] : n \in 1..MaxBatch}

\* generate_data without the call of torch.manual_seed
generate_data_no_seed(images, rng) ==
    LET projected == [i \in 1..Len(images) |-> fwd_op(images[i])]
        r == randn(rng, Len(projected))
    IN  [data |-> [i \in 1..Len(projected) |-> projected[i] + r.noise[i]],
         noise |-> r.noise, images |-> images, rng |-> r.rng]

\* generate_data(images) with the generator in state rng: the data, the
\* noise added, images after the call and the generator after the call
generate_data(images, rng) ==
    LET seeded == manual_seed(123)
        projected == [i \in 1..Len(images) |-> fwd_op(images[i])]
        r == randn(seeded, Len(projected))
    IN  [data |-> [i \in 1..Len(projected) |-> projected[i] + r.noise[i]],
         noise |-> r.noise, images |-> images, rng |-> r.rng]

\* test() of the classification cells: what it leaves and what it prints
classification_test(n, loader) ==
    LET r == test_loop(loader, 1,
                 [test_loss |-> 0, correct |-> 0, evaluated |-> <<>>])
        total == dataset_len(loader, 1)
    IN  [model |-> eval_mode(n),
         test_loss |-> Rat(r.test_loss, total),
         correct |-> r.correct,
         total |-> total,
         evaluated |-> r.evaluated]

Part2Calls ==
    UNION {[fn : {"IterativeNet"}, niter : {n}, init_op : {"None", "fbp_op_mod"},
            weights : [0..(n - 1) -> BlockWeights], y : NetData]
             : n \in 0..MaxNiter}
    \cup [fn : {"show_image_matrix"}, image_batches : Batches,
          titles : Titles, indices : Indices]
    \cup [fn : {"pick_batch"}, loader : PickLoaders]
    \cup [fn : {"generate_data"}, images : ImageBatches,
          images2 : ImageBatches, rng : RngStates]
    \cup [fn : {"test"}, loader : SampleLoaders,
          model : {train_mode(Module("mlp")), eval_mode(Module("convnet"))}]

\* show_image_matrix(results, titles, indices=...)
apply_show_image_matrix ==
    /\ fn = "call" /\ arg.fn = "show_image_matrix"
    /\ res' = show_image_matrix(arg.image_batches, arg.titles, arg.indices)
    /\ fn' = "show_image_matrix"
    /\ UNCHANGED <<arg, nbvars, mlvars>>

\* iter_net = IterativeNet(niter=..., ...) and iter_net(y)
apply_iterative_net ==
    /\ fn = "call" /\ arg.fn = "IterativeNet"
    /\ LET net == IterativeNet(arg.niter, arg.init_op, arg.weights)
       IN  res' = [net |-> net, fwd |-> forward(net, arg.y)]
    /\ fn' = "IterativeNet"
    /\ UNCHANGED <<arg, nbvars, mlvars>>

\* test() of a classification cell
apply_test ==
    /\ fn = "call" /\ arg.fn = "test"
    /\ res' = classification_test(arg.model, arg.loader)
    /\ fn' = "test"
    /\ UNCHANGED <<arg, nbvars, mlvars>>

\* the loop over test_loader and test_images = Variable(images)
apply_pick_batch ==
    /\ fn = "call" /\ arg.fn = "pick_batch"
    /\ res' = pick_batch(arg.loader)
    /\ fn' = "pick_batch"
    /\ UNCHANGED <<arg, nbvars, mlvars>>

\* two calls of generate_data, one after the other
apply_generate_data ==
    /\ fn = "call" /\ arg.fn = "generate_data"
    /\ LET first == generate_data(arg.images, arg.rng)
       IN  res' = [first |-> first,
                   second |-> generate_data(arg.images2, first.rng)]
    /\ fn' = "generate_data"
    /\ UNCHANGED <<arg, nbvars, mlvars>>

Part2Init ==
    /\ nb = ""
    /\ NbIdle
    /\ fn = "call"
    /\ arg \in Part2Calls
    /\ res = <<>>
    /\ MlIdle

Part2Next ==
    \/ apply_iterative_net \/ apply_show_image_matrix
    \/ apply_test \/ apply_pick_batch \/ apply_generate_data

SpecPart2 == Part2Init /\ [][Part2Next]_vars

Next ==
    \/ dr_image \/ dr_problem \/ dr_params \/ dr_solve
    \/ sparse_parameters \/ sparse_problem \/ sparse_solve
    \/ pdhg_image \/ pdhg_problem \/ pdhg_params \/ pdhg_solve
    \/ solver_iteration \/ solver_return

Spec == Init /\ [][Next]_vars


\* ===================================================================== claims
Max(a, b) == IF a < b THEN b ELSE a

\* C1: for sigma >= 0, soft_shrink(x, sigma) maps every entry t to t + sigma
\* if t < -sigma, to 0 if |t| <= sigma and to t - sigma if t > sigma; the
\* result has magnitude max(|t| - sigma, 0) and the sign of t, or is zero.
C1_SoftShrink ==
    (fn = "soft_shrink" /\ arg.sigma >= 0) =>
        /\ Len(res) = Len(arg.x)
        /\ \A i \in 1..Len(arg.x) :
              LET t == arg.x[i]
                  r == res[i]
                  s == arg.sigma
              IN  /\ t < -s => r = t + s
                  /\ Abs(t) <= s => r = 0
                  /\ t > s => r = t - s
                  /\ Abs(r) = Max(Abs(t) - s, 0)
                  /\ r = 0 \/ ((r > 0) <=> (t > 0))

C1_Witness ==
    /\ fn = "soft_shrink"
    /\ arg.sigma = 1
    /\ arg.x = <<-2, 2>>
    /\ res = <<-1, 1>>

\* C6: the nonnegativity indicator is 0 on every vector without a negative
\* entry and +infinity on every vector with one; its proximal is the identity
\* on the former and otherwise sets exactly the negative entries to 0,
\* whatever the step size.
C6_Indicator ==
    fn = "IndicatorNonnegativity" =>
        LET xv == arg.x
            negative == \E i \in 1..Len(xv) : xv[i] < 0
            clamped == [i \in 1..Len(xv) |-> IF xv[i] < 0 THEN 0 ELSE xv[i]]
        IN  /\ ~negative => res.value = Fin(0) /\ res.prox = {xv}
            /\ negative => res.value = Infinity /\ res.prox = {clamped}

C6_Witness ==
    /\ fn = "IndicatorNonnegativity"
    /\ arg.x = <<-2, 1>>
    /\ res.value = Infinity
    /\ res.prox = {<<0, 1>>}

\* C10: the proximal of the separable sum f(z_1, z_2) = f_1(z_1) + f_2(z_2)
\* at a point (w_1, w_2) is the pair of the proximal of f_1 at w_1 and the
\* proximal of f_2 at w_2, for every point and step size: the first component
\* does not depend on w_2, nor the second on w_1.
C10_SeparableProx ==
    fn = "SeparableSum" =>
        LET n == Len(arg.x)
            P1 == prox([z \in Images |-> f_1(z, arg.x, alpha_pdhg)],
                       alpha_pdhg[2], arg.sigma, part1(arg.w, n))
            P2 == prox([z \in Images |-> f_2(z, alpha_pdhg)],
                       alpha_pdhg[2], arg.sigma, part2(arg.w, n))
        IN  res = {u \o v : u \in P1, v \in P2}

C10_Witness ==
    /\ fn = "SeparableSum"
    /\ \E z \in res :
          /\ part1(z, Len(arg.x)) # part1(arg.w, Len(arg.x))
          /\ part2(z, Len(arg.x)) # Zero(Len(arg.x))

\* tau * sum_i sigmas[i] * opnorms[i]^2 over every index of opnorms, as the
\* fraction <<numerator, denominator>> (not reduced)
RECURSIVE WeightedSum(_, _, _)
WeightedSum(sigs, norms, from) ==
    IF from > Len(norms) THEN <<0, 1>>
    ELSE LET rest == WeightedSum(sigs, norms, from + 1)
             num == sigs[from][1] * norms[from][1] * norms[from][1]
             den == sigs[from][2] * norms[from][2] * norms[from][2]
         IN  <<num * rest[2] + rest[1] * den, den * rest[2]>>

StepValue(t, sigs, norms) ==
    LET ws == WeightedSum(sigs, norms, 1)
    IN  <<t[1] * ws[1], t[2] * ws[2]>>

\* the step-size cell of the Douglas-Rachford notebook has run
DrParamsRan == nb = "dr" /\ pc \in {"solve", "running", "done", "error"}

\* C2: check_params(tau, sigmas) succeeds exactly when
\* tau * sum_i(sigmas[i] * opnorms[i]^2) < 4 and raises an AssertionError
\* whenever the value is >= 4, the value 4 included, for sigmas as long as
\* opnorms.
C2_CheckParams ==
    (DrParamsRan /\ Len(sigmas) = Len(opnorms)) =>
        LET v == StepValue(tau, sigmas, opnorms)
        IN  /\ v[1] < 4 * v[2] => err = "" /\ checked /\ pc # "error"
            /\ v[1] >= 4 * v[2] =>
                  err = "AssertionError" /\ ~checked /\ pc = "error"

C2_Witness ==
    /\ DrParamsRan
    /\ Len(sigmas) = Len(opnorms)
    /\ StepValue(tau, sigmas, opnorms)[1] = 4 * StepValue(tau, sigmas, opnorms)[2]
    /\ err = "AssertionError"

\* C3: in every notebook that runs a splitting solver an iteration of the
\* solver only happens after the step-size inequality was checked and found
\* to hold.
C3_Original == iter >= 1 => checked

\* What the notebooks do about C3: only the Douglas-Rachford denoising
\* notebook checks the inequality (check_params, on the scaled norm
\* estimates) before the solver call: there every iteration follows a passed
\* check of the step sizes in use, and a failed check ends the run with no
\* iteration; the sparse-angle and PDHG notebooks run the solver without any
\* check.
C3_CheckedInDr ==
    /\ (nb = "dr" /\ (pc \in {"running", "done"} \/ iter >= 1)) =>
          /\ checked
          /\ StepValue(tau, sigmas, opnorms)[1]
                < 4 * StepValue(tau, sigmas, opnorms)[2]
    /\ (nb = "dr" /\ err = "AssertionError") => pc = "error" /\ iter = 0
    /\ nb \in {"sparse", "pdhg"} => ~checked

C3_Witness == nb = "dr" /\ pc = "running" /\ iter >= 1 /\ checked

Reported(msg) == {msg.args[i].name : i \in 1..Len(msg.args)}

\* C5: the error of a failed step-size check reports the operands of the
\* inequality: tau, every sigma_i and every operator norm.
C5_Original ==
    err = "AssertionError" => {"tau", "sigmas", "opnorms"} \subseteq Reported(errmsg)

\* What check_params does about C5: the error of a failed check names the
\* bound ("value must be < 4") and reports the resulting product only; the
\* sum sum_i sigma_i * opnorm_i^2 was printed before the assertion, and tau,
\* the sigmas and the norms are not reported.
C5_Message ==
    err = "AssertionError" =>
        LET v == StepValue(tau, sigmas, opnorms)
            ws == WeightedSum(sigmas, opnorms, 1)
            last == out[Len(out)]
        IN  /\ errmsg.text = "value must be < 4, got {}"
            /\ Len(errmsg.args) = 1
            /\ errmsg.args[1].name = "check_value"
            /\ errmsg.args[1].val = Rat(v[1], v[2])
            /\ Len(out) >= 1
            /\ last.text = "Sum evaluates to"
            /\ last.args[1].val = Rat(ws[1], ws[2])

C5_Witness ==
    /\ err = "AssertionError"
    /\ errmsg.args[1].val = RInt(4)
    /\ out[Len(out)].args[1].val = RInt(2)

\* the problem of a notebook is set up
ProblemSet ==
    \/ nb \in {"dr", "pdhg"} /\ pc \in {"params", "solve", "running", "done"}
    \/ nb = "dr" /\ pc = "error"
    \/ nb = "sparse" /\ pc \in {"solve", "running", "done"}

\* C7: in every problem setup each functional composed with an operator is
\* defined on that operator's range, the functional that is not composed is
\* defined on the operators' common domain, and there are as many composed
\* functionals as operators.
C7_DomainsMatch ==
    /\ (ProblemSet /\ nb \in {"dr", "sparse"}) =>
          /\ Len(g) = Len(L)
          /\ \A i \in 1..Len(L) :
                /\ g[i].domain = L[i].range
                /\ f.domain = L[i].domain
    /\ (ProblemSet /\ nb = "pdhg") =>
          /\ f.domain = L.range
          /\ g.domain = L.domain
          /\ Len(f.parts) = Len(L.range.parts)
          /\ \A i \in 1..Len(f.parts) : f.parts[i].domain = L.range.parts[i]

C7_Witness ==
    /\ nb = "sparse" /\ pc = "running"
    /\ data_matching = "inexact"
    /\ g[1].kind = "IndicatorLpUnitBall"
    /\ g[1].domain = L[1].range
    /\ g[2].domain = ProductSpace(<<space, space>>)

\* C8: every solver run ends, and it ends after exactly niter iterations, 200
\* in the denoising notebooks and 20 in the sparse-angle notebook: it neither
\* returns earlier nor iterates further. (A running solver can always take a
\* step, and every step either adds one iteration, up to niter, or returns.)
C8_ExactlyNiter ==
    /\ [](pc = "done" => iter = IF nb = "sparse" THEN 20 ELSE 200)
    /\ [](iter <= IF nb = "sparse" THEN 20 ELSE 200)
    /\ [](pc = "running" => ENABLED (solver_iteration \/ solver_return))
    /\ [][pc = "running" =>
            \/ pc' = "running" /\ iter' = iter + 1
            \/ /\ pc' = "done" /\ iter' = iter
               /\ iter = IF nb = "sparse" THEN 20 ELSE 200]_vars

C8_Witness == nb = "sparse" /\ pc = "done" /\ iter = 20

\* C9: a solver run starts from the zero vector and changes nothing but the
\* iterate x, once per iteration: the data, the operators, the functionals
\* and the step sizes are after the run what they were before it.
C9_OnlyIterate ==
    [][/\ (pc # "running" /\ pc' = "running") =>
             x' = Zero(Npix) /\ iter' = 0
       /\ pc = "running" =>
             /\ UNCHANGED <<y, data, f, g, L, tau, sigmas, opnorms, niter>>
             /\ x' # x => iter' = iter + 1]_vars

C9_Witness ==
    /\ nb = "pdhg" /\ pc = "done"
    /\ x # Zero(Npix)
    /\ y \in NoisyImages
    /\ tau = sigmas[1]

\* C11 as stated: TV denoising (data term ||x - y||^2, alpha TV,
\* nonnegativity constraint) of noise-free data y that is a constant image
\* of value c gives y itself, for any constant c and any alpha > 0.
C11_Original ==
    (fn = "tv_denoise" /\ \E c \in (-MaxVal)..MaxVal : IsConstant(arg.y, c)) =>
        res = {arg.y}

\* C11 amended: for a constant image y of value c >= 0 and any alpha > 0
\* the result is y itself; for c < 0 the nonnegativity constraint makes the
\* result the zero image, not y.
C11_ConstantImage ==
    fn = "tv_denoise" =>
        /\ \A c \in 0..MaxVal : IsConstant(arg.y, c) => res = {arg.y}
        /\ \A c \in (-MaxVal)..(-1) :
              IsConstant(arg.y, c) => res = {Zero(Len(arg.y))}
        /\ \A xv \in res : \A i \in 1..Len(xv) : xv[i] >= 0

C11_Witness ==
    /\ fn = "tv_denoise"
    /\ IsConstant(arg.y, MaxVal)
    /\ arg.alpha = RInt(5)
    /\ res = {arg.y}

\* the vector v is in the kernel of op
InKernel(op, v) == op_apply(op, v) = Zero(Len(op_apply(op, v)))

\* no iterate of a run of the power method is the zero vector
NoZeroIterate(pm) ==
    /\ pm.status = "ok"
    /\ Len(pm.iterates) = PmIter
    /\ \A k \in 1..Len(pm.iterates) :
          pm.iterates[k] # Zero(Len(pm.iterates[k]))

C17_IterativeNet ==
    fn = "IterativeNet" =>
        LET net == res.net
            fwd == res.fwd
            n == arg.niter
            start == IF arg.init_op = "None" THEN 2 * arg.y ELSE arg.y \div 2
        IN  /\ DOMAIN net.attrs = {<<"mod_block_iter", it>> : it \in 0..(n - 1)}
            /\ \A a, b \in DOMAIN net.attrs :
                  net.attrs[a].id = net.attrs[b].id => a = b
            /\ fwd.status = "ok"
            /\ Len(fwd.log) = n
            /\ \A k \in 1..n :
                  LET e == fwd.log[k]
                      w == arg.weights[k - 1]
                      h1 == relu(w[1][1] * e.cur + w[1][2] * e.grad)
                      h2 == relu(w[2][1] * h1)
                  IN  /\ e.it = k - 1
                      /\ e.block = net.attrs[<<"mod_block_iter", k - 1>>].id
                      /\ e.cur = (IF k = 1 THEN start ELSE fwd.log[k - 1].new)
                      /\ e.grad = 2 * (2 * e.cur - arg.y)
                      /\ e.dx = w[3][1] * h2
                      /\ e.new = e.cur + e.dx
            /\ fwd.out = (IF n = 0 THEN start ELSE fwd.log[n].new)

C17_Witness ==
    /\ fn = "IterativeNet"
    /\ arg.niter = 2
    /\ arg.init_op = "fbp_op_mod"
    /\ arg.weights[0] # arg.weights[1]
    /\ Len(res.fwd.log) = 2
    /\ res.fwd.log[2].dx # 0

\* the batches show_image_matrix displays for its arguments
Displayed ==
    IF arg.indices.kind = "None" THEN arg.image_batches
    ELSE [j \in 1..Len(arg.image_batches) |->
             index_select(arg.image_batches[j], arg.indices)]

\* a call of show_image_matrix with at least one batch, a first batch that
\* displays at least one image, indices within every batch, and no titles or
\* one title per batch
ProperCall ==
    /\ fn = "show_image_matrix"
    /\ Len(arg.image_batches) >= 1
    /\ \A j \in 1..Len(arg.image_batches) :
          index_ok(arg.image_batches[j], arg.indices)
    /\ Len(Displayed[1]) >= 1
    /\ arg.titles.given => Len(arg.titles.names) = Len(arg.image_batches)

\* the grid cell of image i of the j-th displayed batch
GridCell(i, j) ==
    [ax |-> Axes(i, j), image |-> Displayed[j][i], titled |-> i = 1,
     title |-> IF i = 1 /\ arg.titles.given THEN arg.titles.names[j] ELSE ""]

\* C18: show_image_matrix draws image i of the j-th displayed batch in row i
\* of column j, for every batch j and every i up to the length of the first
\* batch, titles on the first row only, also for a single row or a single
\* column; with indices=None every image of every batch is shown.
C18_Original ==
    ProperCall =>
        /\ res.status = "ok"
        /\ \A j \in 1..Len(Displayed) : \A i \in 1..Len(Displayed[1]) :
              /\ i <= Len(Displayed[j])
              /\ GridCell(i, j) \in res.drawn
        /\ \A d \in res.drawn : d.titled <=> d.ax.row = 1
        /\ arg.indices.kind = "None" =>
              \A j \in 1..Len(arg.image_batches) :
                 \A i \in 1..Len(arg.image_batches[j]) :
                    \E d \in res.drawn : d.image = arg.image_batches[j][i]

\* What show_image_matrix does about C18: when the displayed batches all have
\* the length of the first, the grid drawn is exactly that of C18; a
\* displayed batch shorter than the first raises IndexError, and of a longer
\* one only the first images are drawn.
C18_EqualBatches ==
    ProperCall =>
        LET nrows == Len(Displayed[1])
            ncols == Len(Displayed)
        IN  /\ (\A j \in 1..ncols : Len(Displayed[j]) = nrows) =>
                  /\ res.status = "ok"
                  /\ res.drawn =
                        {GridCell(i, j) : i \in 1..nrows, j \in 1..ncols}
            /\ (\E j \in 1..ncols : Len(Displayed[j]) < nrows) =>
                  res.status = "IndexError"
            /\ (\A j \in 1..ncols : Len(Displayed[j]) >= nrows) =>
                  /\ res.status = "ok"
                  /\ \A d \in res.drawn : d.ax.row <= nrows

\* C19: with c = 3 / (n tau) and sigma_i = c / opnorm_i^2 the value
\* check_params checks is 3 for every tau > 0 and every list of positive
\* operator norms, so the check passes whatever tau and the norms are, and
\* tau < 4 / (n c).
C19_RuleGivesThree ==
    fn = "rule_of_thumb" =>
        LET n == Len(arg.opnorms)
        IN  /\ res.value = RInt(3)
            /\ res.ok
            /\ Len(res.sigmas) = n
            /\ RLt(arg.tau, RDiv(RInt(4), RMul(RInt(n), res.c)))

C19_Witness ==
    /\ fn = "rule_of_thumb"
    /\ arg.tau = RInt(5)
    /\ arg.opnorms = <<RInt(1), Rat(33, 10), RInt(2)>>
    /\ res.c = Rat(1, 5)

\* true norms around an estimate e: below, at and above 1.1 e
TrueNorms(e) ==
    {RMul(k, e) : k \in {Rat(1, 2), RInt(1), Rat(109, 100), Rat(11, 10),
                         Rat(111, 100), RInt(2)}}

\* C20: in the PDHG notebook tau = sigma = 1 / L_norm with L_norm = 1.1 e
\* for the estimate e: e^2 tau sigma = 1/1.21 < 1 and L_norm^2 tau sigma = 1,
\* so the criterion ||L||^2 tau sigma < 1 holds for a true norm below 1.1 e
\* and fails for a true norm of 1.1 e or more.
C20_SafetyMargin ==
    (nb = "pdhg" /\ pc \in {"solve", "running", "done"}) =>
        LET ln == RMul(Rat(11, 10), est)
            sig == sigmas[1]
        IN  /\ opnorms = <<ln>>
            /\ tau = RDiv(RInt(1), ln) /\ sig = tau
            /\ RMul(RMul(est, est), RMul(tau, sig)) = Rat(100, 121)
            /\ pdhg_criterion(est, tau, sig)
            /\ RMul(RMul(ln, ln), RMul(tau, sig)) = RInt(1)
            /\ \A n \in TrueNorms(est) :
                  pdhg_criterion(n, tau, sig) <=> RLt(n, ln)

C20_Witness ==
    /\ nb = "pdhg" /\ pc = "running"
    /\ est = RInt(3)
    /\ opnorms = <<Rat(33, 10)>>
    /\ tau = Rat(10, 33)


\* ---------------------------------------------------------------- C15
\* C15: the MNIST test dataset, made without download, is only ever
\* constructed once the training dataset's constructor with download=True has
\* returned, so its files are there and 'Dataset not found' is never raised;
\* and once the files are cached nothing is downloaded again, in particular
\* not by a second execution.
C15_TestAfterTrain ==
    /\ [](dset_test => dset_train /\ files)
    /\ [](pc = "dset_test" => dset_train /\ files)
    /\ [](err # "RuntimeError")
    /\ [][files => files' /\ downloads' = downloads]_vars
    /\ [](downloads <= 1)

\* a second execution has made both datasets from the files the first fetched
C15_Witness ==
    /\ run = 2 /\ dset_train /\ dset_test
    /\ files /\ downloads = 1

\* ---------------------------------------------------------------- C16
\* from the first train(epoch) call to the end of the last test() call
InTraining == pc \in {"train", "clear_output", "test", "for_next"}

\* C16: while a training cell's loop runs, use_cuda, learning_rate,
\* log_interval and epochs keep the values the cell gave them, and the
\* optimizer's lr equals learning_rate, also in the cell that creates a
\* StepLR scheduler.
C16_ConfigFrozen ==
    /\ [][InTraining => configvars' = configvars]_vars
    /\ [][InTraining /\ InTraining' => optimizer'.lr = optimizer.lr]_vars
    /\ [](InTraining =>
            /\ optimizer.lr = learning_rate
            /\ use_cuda = CellConfig(cell).use_cuda
            /\ learning_rate = CellConfig(cell).learning_rate
            /\ log_interval = CellConfig(cell).log_interval
            /\ epochs = CellConfig(cell).epochs)

\* the last test() of the cell that creates the scheduler has returned
C16_Witness ==
    /\ pc = "for_next" /\ epoch = epochs
    /\ optimizer.steps = epochs * NBatches
    /\ cell = "iter_net" /\ lr_scheduler # NoScheduler


\* ---------------------------------------------------------------- C21
\* C21: past the problem cell of the sparse-angle notebook, mode 'exact' has
\* the zero indicator translated by the sinogram as it was loaded, mode
\* 'inexact' has the scaled unit-ball indicator translated by the sinogram
\* with noise added, and any other mode has ended the run with
\* RuntimeError('unknown data_matching') while lin_ops and g are unbound and
\* no solver iteration has run.
C21_DataMatching ==
    (nb = "sparse" /\ pc \notin {"start", "problem"}) =>
        /\ data_matching = "exact" =>
              /\ data \in Sinograms
              /\ g[1] = indicator_exact(data)
              /\ err = ""
        /\ data_matching = "inexact" =>
              /\ \E d \in Sinograms : \E n \in Noises : data = vec_add(d, n)
              /\ data \notin Sinograms
              /\ g[1] = indicator_inexact(data)
              /\ err = ""
        /\ data_matching \notin {"exact", "inexact"} =>
              /\ pc = "error" /\ err = "RuntimeError"
              /\ errmsg = [text |-> "unknown data_matching", args |-> <<>>]
              /\ g = <<>> /\ L = <<>>
              /\ x = <<>> /\ niter = 0 /\ iter = 0

\* an unknown mode has ended the run
C21_Witness ==
    /\ nb = "sparse" /\ data_matching = "other"
    /\ pc = "error" /\ err = "RuntimeError"


\* ---------------------------------------------------------------- C22
\* the positions in events of entry kind ev for batch b of epoch e
At(ev, e, b) ==
    {i \in 1..Len(events) :
        events[i].ev = ev /\ events[i].epoch = e /\ events[i].batch = b}

BatchSteps == <<"zero_grad", "forward", "loss", "backward", "step">>

\* C22: in train(epoch) every batch of the loader is processed exactly once
\* per epoch; its steps are zero_grad, forward, loss, backward and
\* optimizer.step in that order, so the update uses the gradient of that
\* batch alone; a progress line is printed exactly for the batches with
\* batch_idx % log_interval = 0, and its percentage is below 100, also for
\* the loader of 1200 batches.
C22_TrainLoop ==
    /\ \A i \in 1..Len(events) :
          events[i].ev = "step" =>
              /\ i >= 5
              /\ \A k \in 1..5 :
                    /\ events[i - 5 + k].ev = BatchSteps[k]
                    /\ events[i - 5 + k].epoch = events[i].epoch
                    /\ events[i - 5 + k].batch = events[i].batch
              /\ events[i].grad = {<<events[i].epoch, events[i].batch>>}
    /\ \A i \in 1..Len(events) :
          events[i].ev = "print" =>
              /\ events[i].batch % log_interval = 0
              /\ events[i].percent < 100
              /\ i > 1 /\ events[i - 1].ev = "step"
              /\ events[i - 1].batch = events[i].batch
    /\ pc = "clear_output" =>
          \A e \in 1..epoch :
              /\ \A b \in 0..(NBatches - 1) :
                    /\ \A k \in 1..5 : Cardinality(At(BatchSteps[k], e, b)) = 1
                    /\ Cardinality(At("print", e, b)) =
                          (IF b % log_interval = 0 THEN 1 ELSE 0)
              /\ \A i \in 1..Len(events) :
                    events[i].epoch = e /\ events[i].ev \in
                        {"zero_grad", "forward", "loss", "backward", "step",
                         "print"}
                    => events[i].batch \in 0..(NBatches - 1)
    /\ pc = "train" =>
          \A b \in 0..(len_train_loader - 1) :
              b % log_interval = 0 => percent_printed(b, len_train_loader) < 100

\* the second epoch's train of the MLP cell has returned
C22_Witness ==
    /\ pc = "clear_output" /\ cell = "mlp" /\ epoch = 2
    /\ printed = 2 /\ model.params = 2 * NBatches


\* ---------------------------------------------------------------- C23
\* the train(epoch) and test() calls of the cell so far
LoopCalls == SelectSeq(events, LAMBDA v : v.ev \in {"train", "test"})

\* the loop of the current cell has ended
LoopEnded ==
    \/ pc \in {"results", "done"}
    \/ pc = "config" /\ events # <<>>

\* C23: the epoch loop calls train(e) and then test() for e = 1, ..., epochs
\* in that order and no more; the network is in training mode in every
\* training batch and in evaluation mode in every evaluation of test(); it
\* is in evaluation mode when the loop has ended, and the result cells that
\* follow run it in evaluation mode.
C23_EpochLoop ==
    /\ \A k \in 1..Len(LoopCalls) :
          /\ LoopCalls[k].ev = (IF k % 2 = 1 THEN "train" ELSE "test")
          /\ LoopCalls[k].epoch = (k + 1) \div 2
          /\ LoopCalls[k].epoch <= epochs
    /\ \A i \in 1..Len(events) :
          /\ events[i].ev \in {"forward", "step"} => events[i].training
          /\ events[i].ev = "test_forward" => ~events[i].training
          /\ events[i].ev = "results" => ~events[i].training
    /\ LoopEnded =>
          /\ Len(LoopCalls) = 2 * epochs
          /\ ~model.training

\* the last result cell of the reconstruction notebook has run
C23_Witness ==
    /\ nb = "reco" /\ pc = "done" /\ cell = "iter_net"
    /\ events[Len(events)].ev = "results"
    /\ Len(LoopCalls) = 2


\* ---------------------------------------------------------------- C24
\* the samples of the loader test() was applied to, by batch and position
TestSamples ==
    {p \in (1..MaxLoader) \X (1..MaxBatch) :
        p[1] <= Len(arg.loader) /\ p[2] <= Len(arg.loader[p[1]])}

SampleAt(p) == arg.loader[p[1]][p[2]]

RECURSIVE LossOver(_)
LossOver(ps) ==
    IF ps = {} THEN 0
    ELSE LET p == CHOOSE q \in ps : TRUE
         IN  LossOver(ps \ {p}) - SampleAt(p).output[SampleAt(p).target + 1]

\* C24: the classification test() evaluates every test sample exactly once;
\* correct is the number of samples whose arg-max prediction is the label,
\* and lies between 0 and the dataset size; the average loss printed is the
\* sum of the per-sample losses over the dataset size; no parameter of the
\* model changes.
C24_ClassificationTest ==
    fn = "test" =>
        /\ Len(res.evaluated) = Cardinality(TestSamples)
        /\ {res.evaluated[i] : i \in 1..Len(res.evaluated)} = TestSamples
        /\ res.total = Cardinality(TestSamples)
        /\ res.correct =
              Cardinality({p \in TestSamples :
                  SampleAt(p).output[SampleAt(p).target + 1] = 0})
        /\ 0 <= res.correct /\ res.correct <= res.total
        /\ res.test_loss = Rat(LossOver(TestSamples), res.total)
        /\ res.model.params = arg.model.params
        /\ res.model.grad = arg.model.grad
        /\ ~res.model.training

\* two batches, with right and wrong predictions
C24_Witness ==
    /\ fn = "test" /\ Len(arg.loader) = 2
    /\ res.total >= 3 /\ res.correct >= 1 /\ res.correct < res.total


\* ---------------------------------------------------------------- C25
\* what forward starts from
StartValue ==
    IF arg.init_op = "None" THEN fwd_op_adj(arg.y) ELSE fbp_op(arg.y)

\* a block of three layers with weights w on (cur, grad): ReLU after the
\* first and the second layer, none after the third
BlockValue(w, c, gr) ==
    w[3][1] * relu(w[2][1] * relu(w[1][1] * c + w[1][2] * gr))

\* C25: forward(y) starts from init_op(y) when an initializer was given and
\* from op_adj(y) otherwise; with niter = 0 it returns that start value; in
\* each block the ReLU follows every layer but the last; and y is the same
\* after forward as before.
C25_Forward ==
    fn = "IterativeNet" =>
        /\ res.fwd.status = "ok"
        /\ arg.niter = 0 => res.fwd.out = StartValue /\ res.fwd.log = <<>>
        /\ arg.niter > 0 => res.fwd.log[1].cur = StartValue
        /\ \A k \in 1..Len(res.fwd.log) :
              LET e == res.fwd.log[k]
              IN  /\ e.grad = fwd_op_adj(fwd_op(e.cur) - arg.y)
                  /\ e.dx = BlockValue(arg.weights[k - 1], e.cur, e.grad)
                  /\ e.y = arg.y
        /\ res.fwd.y = arg.y

\* no initializer, and a block whose last layer gives a negative update
C25_Witness ==
    /\ fn = "IterativeNet" /\ arg.init_op = "None" /\ arg.niter = MaxNiter
    /\ arg.y # 0 /\ res.fwd.log[1].cur = 2 * arg.y
    /\ \E k \in 1..Len(res.fwd.log) : res.fwd.log[k].dx < 0


\* ---------------------------------------------------------------- C26
\* C26: the loop over test_loader leaves images bound to the batch the
\* loader yields second when it yields at least two, and to its only batch
\* when it yields one; test_images and test_data are made from that one
\* batch.
C26_SecondBatch ==
    fn = "pick_batch" =>
        /\ Len(arg.loader) >= 2 =>
              /\ res.status = "ok"
              /\ res.images = arg.loader[2]
              /\ res.drawn = 2
        /\ Len(arg.loader) = 1 =>
              /\ res.status = "ok"
              /\ res.images = arg.loader[1]
        /\ res.status = "ok" =>
              \E i \in 1..Len(arg.loader) : res.images = arg.loader[i]

\* a loader of three batches whose second is not the batch numbered 1
C26_Witness ==
    /\ fn = "pick_batch" /\ Len(arg.loader) = 3
    /\ arg.loader[2] # 1 /\ res.images = arg.loader[2]

\* ---------------------------------------------------------------- C27
\* C27: generate_data seeds the generator with 123 on every call, so its
\* result depends on images alone: two calls with equal images return equal
\* data, the noise is the same for all batches of one shape, whatever the
\* generator's state was, and images is as it was given.
C27_GenerateData ==
    fn = "generate_data" =>
        /\ arg.images = arg.images2 => res.first.data = res.second.data
        /\ Len(arg.images) = Len(arg.images2) =>
              res.first.noise = res.second.noise
        /\ res.first.noise = randn(manual_seed(123), Len(arg.images)).noise
        /\ \A i \in 1..Len(arg.images) :
              res.first.data[i] = fwd_op(arg.images[i]) + res.first.noise[i]
        /\ res.first.images = arg.images
        /\ res.second.images = arg.images2

\* two calls on different batches of one shape, the generator seeded
\* otherwise before
C27_Witness ==
    /\ fn = "generate_data" /\ arg.rng.seed # 123
    /\ arg.images # arg.images2 /\ Len(arg.images) = Len(arg.images2)
    /\ Len(arg.images) = MaxBatch
    /\ res.first.data # res.second.data


\* ---------------------------------------------------------------- C28
\* fbp_op_mod(test_data) as the FBP cell computed it
FbpOfTestBatch ==
    [src |-> "test_data", epoch |-> 0, batch |-> test_images.batch]

\* C28: no step of a training loop changes the module-level fbp_recos, in
\* particular none of the denoising network's train(), which assigns the
\* name; from the FBP cell on it holds the reconstruction of the test batch,
\* and that is what every result cell shows.
C28_FbpRecos ==
    /\ [][InTraining => fbp_recos' = fbp_recos]_vars
    /\ [][fbp_recos # NoValue /\ pc # "done" /\ pc # "error"
            => fbp_recos' = fbp_recos]_vars
    /\ [](pc \in {"config", "for_first", "for_next", "train", "clear_output",
                  "test", "results", "done"} /\ nb = "reco"
            => fbp_recos = FbpOfTestBatch /\ test_images.src = "test_loader")
    /\ [](\A i \in 1..Len(events) :
            events[i].ev = "results" =>
                /\ events[i].fbp = FbpOfTestBatch
                /\ events[i].truth = test_images)

\* the result cell after the denoising network's training has run
C28_Witness ==
    /\ nb = "reco" /\ cell = "iter_net" /\ pc = "config"
    /\ events # <<>> /\ events[Len(events)].ev = "results"
    /\ fbp_recos = FbpOfTestBatch
    /\ \E i \in 1..Len(events) :
          events[i].ev = "step" /\ events[i].epoch = 1

====
